---- MODULE Spec2Model ----
(***************************************************************************)
(* Chimera browser: the orchestrator (internal/browser/app.go, the build   *)
(* with the busy spinner and the settings store), the composer client      *)
(* (internal/llm/client.go) and the extractor (internal/scraper).          *)
(*                                                                         *)
(* Threads: one GTK main loop (the UI context) that runs signal handlers   *)
(* and the callbacks queued with glib.IdleAdd, and one goroutine per fetch *)
(* running App.handleScrape.  Every handler is cut at its blocking points: *)
(* a sync.RWMutex acquisition and a network call.                          *)
(*                                                                         *)
(* Strings are sequences of tokens.  The tokens " " and "/" are the        *)
(* single characters; every other token stands for a non-empty piece of    *)
(* text that neither starts nor ends with a space or a slash character     *)
(* unless its name says so.                                                *)
(***************************************************************************)
EXTENDS Integers, Sequences, FiniteSets, TLC

\* ------------------------------------------------------------------ bounds
\* fetches (goroutines) started in one run
MaxRequests == 2
\* settings dialogs saved in one run
MaxUpdates == 1
\* user actions handled in one run (clicks, Enter, navigations, dialogs)
MaxActions == 3

\* ------------------------------------------------------------------ values
None == "none"
\* the GTK main loop thread (holder id of App.mu); fetch i is holder i
UI == 0
Requests == 1..MaxRequests

EmptyStr == << >>
UrlBase == <<"https:", "//a.example", "/base">>
UrlY == <<"https:", "//a.example", "/y">>

\* entry.GetText(): what the URL entry holds when an action fires
EntryTexts == { <<" ">>, <<" ">> \o UrlBase }
\* raw targets of the navigation attempts the web view reports
NavTargets == { <<"javascript:", "alert(1)">>, UrlBase, <<"/y">> }

LLMBase == <<"http://llm">>
\* what main hands to NewApp: the endpoint and the default-compose flag from
\* the environment or the stored settings, and the store when it could be opened
Startups ==
    { [base |-> LLMBase, use |-> TRUE, store |-> "store"],
      [base |-> EmptyStr, use |-> FALSE, store |-> None] }
\* what the settings dialog may submit: the three entries and the check box
SettingsInputs ==
    { [BaseURL |-> EmptyStr, Model |-> <<"m">>, APIKey |-> EmptyStr,
       prefer |-> TRUE],
      [BaseURL |-> <<" ", "http://other", "/">>, Model |-> <<"m", " ">>,
       APIKey |-> <<"key">>, prefer |-> FALSE] }

\* ------------------------------------------------------------------ strings
RECURSIVE TrimLeft(_, _)
\* strings.TrimLeft(s, cutset) for a one-character cutset
TrimLeft(s, c) ==
    IF s # << >> /\ Head(s) = c THEN TrimLeft(Tail(s), c) ELSE s

RECURSIVE TrimRight(_, _)
\* strings.TrimRight(s, cutset) for a one-character cutset
TrimRight(s, c) ==
    IF s # << >> /\ s[Len(s)] = c
    THEN TrimRight(SubSeq(s, 1, Len(s) - 1), c)
    ELSE s

\* strings.TrimSpace
TrimSpace(s) == TrimRight(TrimLeft(s, " "), " ")


\* ------------------------------------------------------------------ composer client
\* llm.NewClient: an empty endpoint gives the disabled zero client
NewClient(cfg) ==
    IF cfg.BaseURL = EmptyStr
    THEN [nil |-> FALSE, baseURL |-> EmptyStr, model |-> EmptyStr, apiKey |-> EmptyStr]
    ELSE [nil |-> FALSE, baseURL |-> TrimRight(cfg.BaseURL, "/"),
          model |-> cfg.Model, apiKey |-> cfg.APIKey]

\* the nil *llm.Client
NilClient == [nil |-> TRUE, baseURL |-> EmptyStr, model |-> EmptyStr, apiKey |-> EmptyStr]

\* (*Client).Available
Available(c) == ~c.nil /\ c.baseURL # EmptyStr

\* strings.HasSuffix
HasSuffix(s, suffix) ==
    /\ Len(s) >= Len(suffix)
    /\ SubSeq(s, Len(s) - Len(suffix) + 1, Len(s)) = suffix

\* the path segments the client knows: "/v1" and "/chat/completions"
VersionPath == <<"/v1">>
ChatPath == <<"/chat", "/completions">>
CompletionsPath == VersionPath \o ChatPath

\* a variant of completionsURL that appends the path to every base
completionsURLAlwaysAppends(c) ==
    IF c.baseURL = EmptyStr THEN EmptyStr
    ELSE LET trimmed == TrimRight(c.baseURL, "/") IN
         IF HasSuffix(trimmed, VersionPath) THEN trimmed \o ChatPath
         ELSE trimmed \o CompletionsPath

\* a variant of completionsURL that does not look for a version segment
completionsURLIgnoresVersion(c) ==
    IF c.baseURL = EmptyStr THEN EmptyStr
    ELSE IF HasSuffix(c.baseURL, CompletionsPath) THEN c.baseURL
    ELSE TrimRight(c.baseURL, "/") \o CompletionsPath

\* (*Client).completionsURL
completionsURL(c) ==
    IF c.baseURL = EmptyStr THEN EmptyStr
    ELSE IF HasSuffix(c.baseURL, CompletionsPath) THEN c.baseURL
    ELSE LET trimmed == TrimRight(c.baseURL, "/") IN
         IF HasSuffix(trimmed, VersionPath) THEN trimmed \o ChatPath
         ELSE trimmed \o CompletionsPath

StatusTooManyRequests == 429

\* An error is the chain errors.As walks, outermost first: the wrappers
\* fmt.Errorf("...: %w", err) adds, then the error at the bottom.  No error
\* (nil) is the empty chain.
NoError == << >>
\* llm.ErrUnavailable
ErrUnavailable == << [kind |-> "unavailable", status |-> 0] >>
\* &HTTPError{Status: st}
HTTPError(st) == << [kind |-> "http", status |-> st] >>
\* errors.New("llm response empty")
ErrEmpty == << [kind |-> "empty", status |-> 0] >>
\* fmt.Errorf(msg + ": %w", err)
Wrap(msg, err) == << [kind |-> msg, status |-> 0] >> \o err
\* what http.Client.Do and json.Decoder.Decode return when they fail
ErrTransport == << [kind |-> "transport", status |-> 0] >>
ErrDecode == << [kind |-> "decode", status |-> 0] >>

\* ------------------------------------------------------------------ composer output
\* A message content is a sequence of pieces: the code-fence marker, a word
\* right after it, white space (" "), and markup.  Fence stands for the
\* marker of three backquotes.
Fence == "<fence>"
Markup == <<"<p>hi</p>">>

\* strings.HasPrefix(s, "html") and strings.TrimPrefix(s, "html"): the word
\* html5 starts with html and leaves its last character
HasPrefixHtml(s) == s # << >> /\ Head(s) \in {"html", "html5"}
TrimPrefixHtml(s) ==
    IF s # << >> /\ Head(s) = "html" THEN Tail(s)
    ELSE IF s # << >> /\ Head(s) = "html5" THEN <<"5">> \o Tail(s)
    ELSE s

\* strings.Index(s, fence): the position of the first fence marker, 0 for none
IndexFence(s) ==
    IF \E k \in 1..Len(s) : s[k] = Fence
    THEN CHOOSE k \in 1..Len(s) :
            s[k] = Fence /\ \A j \in 1..(k - 1) : s[j] # Fence
    ELSE 0

\* sanitizeLLMOutput
sanitizeLLMOutput(content) ==
    LET trimmed == TrimSpace(content) IN
    IF trimmed = << >> \/ Head(trimmed) # Fence THEN trimmed
    ELSE LET open == TrimSpace(Tail(trimmed))
             body == IF HasPrefixHtml(open)
                     THEN TrimSpace(TrimPrefixHtml(open)) ELSE open
             cut == IF IndexFence(body) > 0
                    THEN SubSeq(body, 1, IndexFence(body) - 1) ELSE body IN
         TrimSpace(cut)

\* chatCompletionResponse.FirstMessage
FirstMessage(choices) == IF Len(choices) = 0 THEN EmptyStr ELSE choices[1]

\* the body of an answer: not JSON, or a completion with its choices
NotJSON == [json |-> FALSE, choices |-> << >>]
ReplyBodies ==
    { NotJSON }
    \cup { [json |-> TRUE, choices |-> ch] :
             ch \in { << >>, << EmptyStr >>, << <<" ">> >>,
                      << <<Fence, "html", " ", Fence>> >>,
                      << Markup >>,
                      << <<Fence, "html", " ">> \o Markup \o <<" ", Fence>> >>,
                      << EmptyStr, Markup >> } }

\* what the endpoint does with a request: no answer at all, or an answer
\* with a status and a body
Replies ==
    { [status |-> 0, body |-> NotJSON] }
    \cup { [status |-> st, body |-> b] :
             st \in {200, 429, 500, 401}, b \in ReplyBodies }

\* a variant of Answered that returns whatever the first message holds
AnsweredAcceptsEmpty(reply) ==
    IF reply.status = 0
    THEN [page |-> EmptyStr, err |-> Wrap("post llm request", ErrTransport), posts |-> 1]
    ELSE IF reply.status >= 400
    THEN [page |-> EmptyStr, err |-> HTTPError(reply.status), posts |-> 1]
    ELSE IF ~reply.body.json
    THEN [page |-> EmptyStr, err |-> Wrap("decode llm response", ErrDecode), posts |-> 1]
    ELSE [page |-> sanitizeLLMOutput(FirstMessage(reply.body.choices)),
          err |-> NoError, posts |-> 1]

\* (*Client).GeneratePage once the client is known to be available: the
\* request is sent, and the answer is decoded and sanitized
Answered(reply) ==
    IF reply.status = 0
    THEN [page |-> EmptyStr, err |-> Wrap("post llm request", ErrTransport), posts |-> 1]
    ELSE IF reply.status >= 400
    THEN [page |-> EmptyStr, err |-> HTTPError(reply.status), posts |-> 1]
    ELSE IF ~reply.body.json
    THEN [page |-> EmptyStr, err |-> Wrap("decode llm response", ErrDecode), posts |-> 1]
    ELSE LET html == sanitizeLLMOutput(FirstMessage(reply.body.choices)) IN
         IF html = EmptyStr
         THEN [page |-> EmptyStr, err |-> ErrEmpty, posts |-> 1]
         ELSE [page |-> html, err |-> NoError, posts |-> 1]

\* a variant of GeneratePage without the test of Available
GeneratePageUnguarded(c, reply) == Answered(reply)

\* (*Client).GeneratePage: the page and the error it returns, and how many
\* requests it sent
GeneratePage(c, reply) ==
    IF ~Available(c)
    THEN [page |-> EmptyStr, err |-> ErrUnavailable, posts |-> 0]
    ELSE Answered(reply)

\* what a call of GeneratePage on client c can return as its error
AnsweredErrors == { Answered(reply).err : reply \in Replies }
GeneratePageErrors(c) ==
    IF ~Available(c) THEN { ErrUnavailable } ELSE AnsweredErrors

\* errors GeneratePage can return: ErrUnavailable, a transport error, an
\* HTTPError for a status >= 400, a decode error, an empty page
ComposeErrors ==
    { HTTPError(st) : st \in {429, 500, 401} }
    \cup { ErrUnavailable, Wrap("post llm request", ErrTransport),
           Wrap("decode llm response", ErrDecode), ErrEmpty }

\* errors.As(err, &httpErr): the position of the first *HTTPError in the
\* chain, 0 when there is none
FirstHTTPError(err) ==
    IF \E k \in 1..Len(err) : err[k].kind = "http"
    THEN CHOOSE k \in 1..Len(err) :
            /\ err[k].kind = "http"
            /\ \A j \in 1..(k - 1) : err[j].kind # "http"
    ELSE 0

\* a variant of IsRateLimited that takes every HTTP error status for a rate limit
IsRateLimitedAnyStatus(err) ==
    FirstHTTPError(err) # 0

\* a variant of IsRateLimited that compares the error itself, without errors.As
IsRateLimitedUnwrapped(err) ==
    err # NoError /\ err[1].kind = "http" /\ err[1].status = StatusTooManyRequests

\* llm.IsRateLimited
IsRateLimited(err) ==
    LET k == FirstHTTPError(err) IN
    k # 0 /\ err[k].status = StatusTooManyRequests

\* ------------------------------------------------------------------ extractor
SchemeTokens == {"http:", "https:", "HTTPS:", "javascript:", "file:", "myapp:"}
\* host parts, and path segments written without a leading slash
Hosts == {"//a.example", "//b.example"}
Segments == {"y"}
\* a path with a malformed escape
BadTokens == {"/%zz"}

\* url.Parse returns an error
ParseFails(s) == \E k \in 1..Len(s) : s[k] \in BadTokens

\* url.Parse keeps the scheme in lower case
LowerScheme(tok) == IF tok = "HTTPS:" THEN "https:" ELSE tok

\* (*url.URL).IsAbs of the parsed string: it has a scheme
IsAbs(s) == s # << >> /\ Head(s) \in SchemeTokens

\* (*url.URL).String of the parsed string
String(s) == IF IsAbs(s) THEN <<LowerScheme(Head(s))>> \o Tail(s) ELSE s

\* Result.SourceURL of the document Scrape returns for a target
SourceURL(target) == target

\* Scraper.Scrape rejects an empty or non-absolute target before any request
ScrapeRejects(target) == target = EmptyStr \/ ~IsAbs(target)

\* ------------------------------------------------------------------ state
VARIABLES
    mu,            \* App.mu: the holders of the write lock and of the read lock
    llmClient,     \* App.llmClient
    llmSettings,   \* App.llmSettings
    llmPreferred,  \* App.llmPreferred
    llmLastMode,   \* App.llmLastMode
    llmLastSet,    \* App.llmLastSet
    lastSource,    \* App.lastSource
    settingsStore, \* App.settingsStore: None or "store"
    persisted,     \* the Data in the store's settings.json
    uiPc,          \* where the GTK main loop is
    uiLoc,         \* locals of the handler the main loop runs
    queue,         \* callbacks queued with glib.IdleAdd, oldest first
    infoLabel,     \* text of the status label
    view,          \* what the web view has loaded
    bubble,        \* the status bubble injected into the web view
    spinner,       \* the busy spinner is shown
    llmBtn,        \* the compose button is sensitive
    navResult,     \* what the last navigation handler returned
    req,           \* the handleScrape goroutines
    nreq,          \* goroutines started so far
    nupd,          \* settings dialogs saved so far
    nact,          \* user actions handled so far
    limits,        \* how many fetches, saved dialogs and user actions the run takes
    demoted,       \* history: a rate limit forced the template mode, and no
                   \* explicit user action has recorded a mode since
    call           \* one call of a function of the program taken by itself:
                   \* its name, its argument, and what it returned

session == <<llmClient, llmSettings, llmPreferred, llmLastMode, llmLastSet, lastSource>>
disk == <<settingsStore, persisted>>
widgets == <<infoLabel, view, bubble, spinner, llmBtn>>
counters == <<nreq, nupd, nact, limits>>
vars == <<mu, session, disk, uiPc, uiLoc, queue, widgets, navResult, req, counters,
          demoted, call>>

NoSettings == [BaseURL |-> EmptyStr, Model |-> EmptyStr, APIKey |-> EmptyStr]

NoLocals == [useLLM |-> FALSE, target |-> EmptyStr, origin |-> None,
             settings |-> NoSettings, prefer |-> FALSE, client |-> NilClient]

\* a handleScrape goroutine: its position, its parameters target and useLLM,
\* its local client, and a record of what it has called and dispatched:
\* the calls of Scrape and GeneratePage it made, how each ended (doc: "ok" or
\* "failed"; page: "ok", "429" or "other"), and what it handed to the
\* view ("template", "composed" or "error"), in order
IdleRequest == [pc |-> "none", target |-> EmptyStr, useLLM |-> FALSE,
                client |-> NilClient,
                scrapes |-> 0, composes |-> 0, doc |-> None, page |-> None,
                outs |-> << >>]

\* the goroutine has returned: its parameters and locals are gone
Returned(r, out) ==
    [IdleRequest EXCEPT !.pc = "done", !.scrapes = r.scrapes,
                        !.composes = r.composes, !.doc = r.doc, !.page = r.page,
                        !.outs = Append(r.outs, out)]

\* a page: which render produced it, from which document, for which fetch
NoDocument == [kind |-> "blank", src |-> EmptyStr, req |-> 0]
\* no function is being called by itself
NoCall == [fn |-> "none", arg |-> << >>, done |-> FALSE, ret |-> FALSE]

\* main: the configuration handed to NewApp, then NewApp; c is the call
\* that is taken by itself, if any
Started(lim, c) ==
    \E start \in Startups :
        LET cfg == [BaseURL |-> start.base, Model |-> <<"m">>, APIKey |-> EmptyStr]
            use == start.use
            store == start.store IN
        /\ mu = [writer |-> {}, readers |-> {}]
        /\ llmClient = NewClient(cfg)
        /\ llmSettings = [BaseURL |-> TrimSpace(cfg.BaseURL),
                          Model |-> TrimSpace(cfg.Model),
                          APIKey |-> TrimSpace(cfg.APIKey)]
        /\ llmPreferred = use
        /\ llmLastMode = FALSE
        /\ llmLastSet = FALSE
        /\ lastSource = EmptyStr
        /\ settingsStore = store
        /\ persisted = [BaseURL |-> EmptyStr, Model |-> EmptyStr,
                        APIKey |-> EmptyStr, UseLLM |-> FALSE]
        /\ uiPc = "idle"
        /\ uiLoc = NoLocals
        /\ queue = << >>
        /\ infoLabel = "Ready"
        /\ view = NoDocument
        /\ bubble = None
        /\ spinner = FALSE
        /\ llmBtn = Available(NewClient(cfg))
        /\ navResult = None
        /\ req = [i \in Requests |-> IdleRequest]
        /\ nreq = 0
        /\ nupd = 0
        /\ nact = 0
        /\ limits = lim
        /\ demoted = FALSE
        /\ call = c

\* the application as main starts it
Boot(lim) == Started(lim, NoCall)

Init ==
    Boot([requests |-> MaxRequests, updates |-> MaxUpdates, actions |-> MaxActions])

\* ------------------------------------------------------------------ App.mu
\* sync.RWMutex: Lock waits for the writer and for every reader
CanLock == mu.writer = {} /\ mu.readers = {}
\* sync.RWMutex: RLock waits for the writer
CanRLock == mu.writer = {}

\* a variant of Lock that takes nothing
LockSkipped(who) == mu
Lock(who) == [mu EXCEPT !.writer = {who}]
Unlock(who) == [mu EXCEPT !.writer = @ \ {who}]
RLock(who) == [mu EXCEPT !.readers = @ \cup {who}]
\* a variant of RUnlock that leaves the read lock held
RUnlockForgotten(who) == mu
RUnlock(who) == [mu EXCEPT !.readers = @ \ {who}]

\* ------------------------------------------------------------------ UI dispatch
\* a variant of IdleAdd that queues the callback ahead of the waiting ones
IdleAddFirst(q, cb) == <<cb>> \o q

\* glib.IdleAdd
IdleAdd(q, cb) == Append(q, cb)

\* the closure handed to glib.IdleAdd: what it does, with the values it captured
Callback(kind, text, html) == [kind |-> kind, text |-> text, html |-> html]

\* App.setStatus
setStatus(q, text) == IdleAdd(q, Callback("setStatus", text, NoDocument))

\* App.renderHTML
renderHTML(q, html) == IdleAdd(q, Callback("renderHTML", "Done", html))

\* App.renderError: msg is the message up to its colon
renderError(q, msg) == IdleAdd(q, Callback("renderError", msg, NoDocument))

\* App.startSpinner
startSpinner(q) == IdleAdd(q, Callback("startSpinner", "", NoDocument))

\* App.stopSpinner
stopSpinner(q) == IdleAdd(q, Callback("stopSpinner", "", NoDocument))

\* renderSimple: the fixed template over the extracted document
renderSimple(src, r) == [kind |-> "template", src |-> src, req |-> r]

\* the page GeneratePage returns for the extracted document
ComposedPage(src, r) == [kind |-> "composed", src |-> src, req |-> r]


\* ------------------------------------------------------------------ mode decision
\* a variant of prefersLLM that does not ask the client
prefersLLMUnchecked(preferred, client) == preferred

\* App.prefersLLM, the fields read under the read lock
prefersLLM(preferred, client) ==
    IF ~preferred THEN FALSE
    ELSE IF client.nil THEN FALSE
    ELSE Available(client)

\* a variant of navigationMode that takes a recorded sticky mode as it is
navigationModeUnchecked(use, set, client, preferred) ==
    IF set THEN use
    ELSE preferred /\ ~client.nil /\ Available(client)

\* App.navigationMode, from the four fields copied under the read lock
navigationMode(use, set, client, preferred) ==
    LET available == ~client.nil /\ Available(client) IN
    IF set THEN (IF use /\ available THEN TRUE ELSE FALSE)
    ELSE preferred /\ available

\* App.setLastMode: the values written to llmLastMode, llmLastSet
setLastMode(use) == [mode |-> use, set |-> TRUE]

\* App.setLastSource: the value written to lastSource
setLastSource(src) == TrimSpace(src)

\* ------------------------------------------------------------------ navigation resolver
HttpSchemes == {"http:", "https:"}

\* (*url.URL).ResolveReference for a reference without a scheme: one that
\* starts with a host keeps the base's scheme, an absolute path keeps scheme
\* and host, and a relative path replaces the last segment of the base's path
ResolveReference(base, ref) ==
    IF Head(ref) \in Hosts THEN <<LowerScheme(Head(base))>> \o ref
    ELSE IF Head(ref) \in Segments
    THEN SubSeq(String(base), 1, IF Len(base) > 2 THEN Len(base) - 1 ELSE 2)
            \o <<"/" \o Head(ref)>> \o Tail(ref)
    ELSE SubSeq(String(base), 1, 2) \o ref

\* App.resolveTarget up to the read of lastSource: the target needs the base
NeedsBase(target) ==
    TrimSpace(target) # EmptyStr /\ ~IsAbs(TrimSpace(target))

\* a variant of resolveTarget that takes an absolute target of any scheme
resolveTargetAnyScheme(target, base) ==
    LET trimmed == TrimSpace(target) IN
    IF trimmed = EmptyStr \/ ParseFails(trimmed)
    THEN [ok |-> FALSE, url |-> EmptyStr]
    ELSE IF IsAbs(trimmed) THEN [ok |-> TRUE, url |-> String(trimmed)]
    ELSE IF base = EmptyStr \/ ParseFails(base)
    THEN [ok |-> FALSE, url |-> EmptyStr]
    ELSE [ok |-> TRUE, url |-> ResolveReference(base, trimmed)]

\* App.resolveTarget; base is lastSourceURL(), read only for a relative target
resolveTarget(target, base) ==
    LET trimmed == TrimSpace(target) IN
    IF trimmed = EmptyStr THEN [ok |-> FALSE, url |-> EmptyStr]
    ELSE IF ParseFails(trimmed) THEN [ok |-> FALSE, url |-> EmptyStr]
    ELSE IF IsAbs(trimmed)
    THEN (IF LowerScheme(Head(trimmed)) \in HttpSchemes
          THEN [ok |-> TRUE, url |-> String(trimmed)]
          ELSE [ok |-> FALSE, url |-> EmptyStr])
    ELSE IF base = EmptyStr THEN [ok |-> FALSE, url |-> EmptyStr]
    ELSE IF ParseFails(base) THEN [ok |-> FALSE, url |-> EmptyStr]
    ELSE LET resolved == ResolveReference(base, trimmed) IN
         IF Head(resolved) \in HttpSchemes
         THEN [ok |-> TRUE, url |-> resolved]
         ELSE [ok |-> FALSE, url |-> EmptyStr]

\* ------------------------------------------------------------------ UI handlers
\* A handler runs on the main loop from its signal to its return.  It is cut
\* where another thread's step can fall between two of its effects: after a
\* callback is queued and before the next section under App.mu.  A section
\* that only copies fields under the read lock is one step, taken when no
\* writer holds the lock.

\* a user action is taken, and a fetch is started, while the run's bounds
\* leave room for it; a run that has used up its fetches ends where the next
\* one would start
ActionAllowed == nact < limits.actions
FetchAllowed == nreq < limits.requests

\* the scrape closure of App.activate, up to its call of setLastMode
ScrapeBody(useLLM, text, origin) ==
    LET trimmed == TrimSpace(text) IN
    IF trimmed = EmptyStr
    THEN /\ queue' = setStatus(queue, "Please provide a URL")
         /\ uiPc' = "idle"
         /\ uiLoc' = NoLocals
    ELSE /\ queue' = setStatus(queue, "Scraping...")
         /\ uiPc' = "setLastMode"
         /\ uiLoc' = [NoLocals EXCEPT !.useLLM = useLLM, !.target = trimmed,
                                      !.origin = origin]

\* a variant of ClickCompose that asks navigationMode for the mode
ClickComposeAsNavigation(text) ==
    /\ uiPc = "idle"
    /\ llmBtn
    /\ ActionAllowed
    /\ nact' = nact + 1
    /\ ScrapeBody(navigationMode(llmLastMode, llmLastSet, llmClient, llmPreferred),
                  text, "compose")
    /\ UNCHANGED <<mu, session, disk, widgets, navResult, req, nreq, nupd,
                   demoted, call, limits>>

\* scrapeBtn "clicked": scrape(false)
ClickReader(text) ==
    /\ uiPc = "idle"
    /\ ActionAllowed
    /\ nact' = nact + 1
    /\ ScrapeBody(FALSE, text, "reader")
    /\ UNCHANGED <<mu, session, disk, widgets, navResult, req, nreq, nupd,
                   demoted, call, limits>>

\* llmBtn "clicked": scrape(true); the button answers only while sensitive
ClickCompose(text) ==
    /\ uiPc = "idle"
    /\ llmBtn
    /\ ActionAllowed
    /\ nact' = nact + 1
    /\ ScrapeBody(TRUE, text, "compose")
    /\ UNCHANGED <<mu, session, disk, widgets, navResult, req, nreq, nupd,
                   demoted, call, limits>>

\* entry "activate": scrape(a.prefersLLM())
PressEnter(text) ==
    /\ uiPc = "idle"
    /\ ActionAllowed
    /\ CanRLock
    /\ nact' = nact + 1
    /\ ScrapeBody(prefersLLM(llmPreferred, llmClient), text, "enter")
    /\ UNCHANGED <<mu, session, disk, widgets, navResult, req, nreq, nupd,
                   demoted, call, limits>>

\* a variant of Navigate that reports a rejected target as handled
NavigateSwallows(target) ==
    /\ uiPc = "idle"
    /\ ActionAllowed
    /\ NeedsBase(target) => CanRLock
    /\ nact' = nact + 1
    /\ LET r == resolveTarget(target, lastSource) IN
       IF r.ok
       THEN /\ queue' = setStatus(
                           IdleAdd(queue, Callback("entrySetText", "",
                               [kind |-> "url", src |-> r.url, req |-> 0])),
                           "Scraping...")
            /\ uiPc' = "navigationMode"
            /\ uiLoc' = [NoLocals EXCEPT !.target = r.url, !.origin = "nav"]
            /\ UNCHANGED navResult
       ELSE /\ navResult' = "true"
            /\ UNCHANGED <<queue, uiPc, uiLoc>>
    /\ UNCHANGED <<mu, session, disk, widgets, req, nreq, nupd,
                   demoted, call, limits>>

\* a variant of Navigate that remembers the resolved target as the last source
NavigateRecordsTarget(target) ==
    /\ uiPc = "idle"
    /\ ActionAllowed
    /\ NeedsBase(target) => CanRLock
    /\ nact' = nact + 1
    /\ LET r == resolveTarget(target, lastSource) IN
       IF r.ok
       THEN /\ queue' = setStatus(
                           IdleAdd(queue, Callback("entrySetText", "",
                               [kind |-> "url", src |-> r.url, req |-> 0])),
                           "Scraping...")
            /\ uiPc' = "navigationMode"
            /\ uiLoc' = [NoLocals EXCEPT !.target = r.url, !.origin = "nav"]
            /\ lastSource' = r.url
            /\ UNCHANGED navResult
       ELSE /\ navResult' = "false"
            /\ UNCHANGED <<queue, uiPc, uiLoc, lastSource>>
    /\ UNCHANGED <<mu, llmClient, llmSettings, llmPreferred, llmLastMode, llmLastSet,
                   disk, widgets, req, nreq, nupd, demoted, call, limits>>

\* webView.OnNavigate handler: resolveTarget (lastSourceURL is read only for
\* a relative target), then the two callbacks; return false when rejected
Navigate(target) ==
    /\ uiPc = "idle"
    /\ ActionAllowed
    /\ NeedsBase(target) => CanRLock
    /\ nact' = nact + 1
    /\ LET r == resolveTarget(target, lastSource) IN
       IF r.ok
       THEN /\ queue' = setStatus(
                           IdleAdd(queue, Callback("entrySetText", "",
                               [kind |-> "url", src |-> r.url, req |-> 0])),
                           "Scraping...")
            /\ uiPc' = "navigationMode"
            /\ uiLoc' = [NoLocals EXCEPT !.target = r.url, !.origin = "nav"]
            /\ UNCHANGED navResult
       ELSE /\ navResult' = "false"
            /\ UNCHANGED <<queue, uiPc, uiLoc>>
    /\ UNCHANGED <<mu, session, disk, widgets, req, nreq, nupd,
                   demoted, call, limits>>

\* the handler's useLLM := a.navigationMode()
NavigationMode ==
    /\ uiPc = "navigationMode"
    /\ CanRLock
    /\ uiLoc' = [uiLoc EXCEPT !.useLLM =
                    navigationMode(llmLastMode, llmLastSet, llmClient, llmPreferred)]
    /\ uiPc' = "setLastMode"
    /\ UNCHANGED <<mu, session, disk, queue, widgets, navResult, req, counters,
                   demoted, call>>

\* a variant of Spawn without the go statement: the handler is inside
\* handleScrape itself
SpawnInline(target, useLLM) ==
    /\ FetchAllowed
    /\ nreq' = nreq + 1
    /\ req' = [req EXCEPT ![nreq + 1] =
                  [IdleRequest EXCEPT !.pc = "scrape", !.target = target,
                                      !.useLLM = useLLM, !.scrapes = 1]]

\* go a.handleScrape(ctx, target, ..., useLLM)
Spawn(target, useLLM) ==
    /\ FetchAllowed
    /\ nreq' = nreq + 1
    /\ req' = [req EXCEPT ![nreq + 1] =
                  [IdleRequest EXCEPT !.pc = "start", !.target = target,
                                      !.useLLM = useLLM]]

\* a.setLastMode(useLLM) on the main loop, then the handler starts the fetch
\* and returns (true, for the navigation handler)
UISetLastMode ==
    /\ uiPc = "setLastMode"
    /\ CanLock
    /\ llmLastMode' = setLastMode(uiLoc.useLLM).mode
    /\ llmLastSet' = setLastMode(uiLoc.useLLM).set
    /\ Spawn(uiLoc.target, uiLoc.useLLM)
    /\ navResult' = IF uiLoc.origin = "nav" THEN "true" ELSE navResult
    /\ demoted' = IF uiLoc.origin = "nav" THEN demoted ELSE FALSE
    /\ UNCHANGED call
    /\ uiPc' = "idle"
    /\ uiLoc' = NoLocals
    /\ UNCHANGED <<mu, llmClient, llmSettings, llmPreferred, lastSource, disk, queue,
                   widgets, nupd, nact, limits>>

\* ------------------------------------------------------------------ App.handleScrape
\* a variant of Start that shows the spinner from the goroutine
StartShowsSpinner(i) ==
    /\ req[i].pc = "start"
    /\ spinner' = TRUE
    /\ req' = [req EXCEPT ![i].pc = "scrape", ![i].scrapes = @ + 1]
    /\ UNCHANGED <<mu, session, disk, uiPc, uiLoc, queue, infoLabel, view, bubble,
                   llmBtn, navResult, counters, demoted, call>>

\* the goroutine starts: startSpinner, then it is inside Scraper.Scrape
Start(i) ==
    /\ req[i].pc = "start"
    /\ queue' = startSpinner(queue)
    /\ req' = [req EXCEPT ![i].pc = "scrape", ![i].scrapes = @ + 1]
    /\ UNCHANGED <<mu, session, disk, uiPc, uiLoc, widgets, navResult, counters,
                   demoted, call>>

\* a variant of ScrapeFails that renders the template for the failed fetch
ScrapeFailsThenTemplate(i) ==
    /\ req[i].pc = "scrape"
    /\ queue' = stopSpinner(renderHTML(queue, renderSimple(req[i].target, i)))
    /\ req' = [req EXCEPT ![i] = Returned([@ EXCEPT !.doc = "failed"], "template")]
    /\ UNCHANGED <<mu, session, disk, uiPc, uiLoc, widgets, navResult, counters,
                   demoted, call>>

\* Scrape returns an error: renderError, return (the deferred stopSpinner runs)
ScrapeFails(i) ==
    /\ req[i].pc = "scrape"
    /\ queue' = stopSpinner(renderError(queue, "Scrape failed"))
    /\ req' = [req EXCEPT ![i] = Returned([@ EXCEPT !.doc = "failed"], "error")]
    /\ UNCHANGED <<mu, session, disk, uiPc, uiLoc, widgets, navResult, counters,
                   demoted, call>>

\* Scrape returns a document and setLastSource takes the write lock
ScrapeSucceeds(i) ==
    /\ req[i].pc = "scrape"
    /\ ~ScrapeRejects(req[i].target)
    /\ CanLock
    /\ mu' = Lock(i)
    /\ req' = [req EXCEPT ![i].pc = "setLastSource_cs", ![i].doc = "ok"]
    /\ UNCHANGED <<session, disk, uiPc, uiLoc, queue, widgets, navResult, counters,
                   demoted, call>>

\* a variant of SetLastSourceUnlock that leaves lastSource as it was
SetLastSourceSkipped(i) ==
    /\ req[i].pc = "setLastSource_cs"
    /\ mu' = Unlock(i)
    /\ req' = [req EXCEPT ![i].pc = "currentLLM"]
    /\ UNCHANGED <<session, disk, uiPc, uiLoc, queue, widgets, navResult, counters,
                   demoted, call>>

\* setLastSource writes and unlocks
SetLastSourceUnlock(i) ==
    /\ req[i].pc = "setLastSource_cs"
    /\ lastSource' = setLastSource(SourceURL(req[i].target))
    /\ mu' = Unlock(i)
    /\ req' = [req EXCEPT ![i].pc = "currentLLM"]
    /\ UNCHANGED <<llmClient, llmSettings, llmPreferred, llmLastMode, llmLastSet,
                   disk, uiPc, uiLoc, queue, widgets, navResult, counters,
                   demoted, call>>

\* currentLLM takes the read lock
CurrentLLMLock(i) ==
    /\ req[i].pc = "currentLLM"
    /\ CanRLock
    /\ mu' = RLock(i)
    /\ req' = [req EXCEPT ![i].pc = "currentLLM_cs"]
    /\ UNCHANGED <<session, disk, uiPc, uiLoc, queue, widgets, navResult, counters,
                   demoted, call>>

\* a variant of UsesComposer that does not ask the client
UsesComposerUnchecked(useLLM, client) == useLLM

\* handleScrape's test before the composer call
UsesComposer(useLLM, client) == useLLM /\ ~client.nil /\ Available(client)

\* the tail of handleScrape: renderSimple, renderHTML, return
RenderTemplate(q, i) ==
    stopSpinner(renderHTML(q, renderSimple(SourceURL(req[i].target), i)))

\* a variant of CurrentLLMReturn that reports a composed fetch whose client
\* is unavailable as a failed composition
CurrentLLMReturnReportsUnavailable(i) ==
    /\ req[i].pc = "currentLLM_cs"
    /\ mu' = RUnlock(i)
    /\ IF UsesComposer(req[i].useLLM, llmClient)
       THEN /\ req' = [req EXCEPT ![i].pc = "generate", ![i].client = llmClient,
                                  ![i].composes = @ + 1]
            /\ queue' = queue
       ELSE IF req[i].useLLM
       THEN /\ req' = [req EXCEPT ![i] = Returned(@, "error")]
            /\ queue' = stopSpinner(renderError(queue, "LLM fallback"))
       ELSE /\ req' = [req EXCEPT ![i] = Returned(@, "template")]
            /\ queue' = RenderTemplate(queue, i)
    /\ UNCHANGED <<session, disk, uiPc, uiLoc, widgets, navResult, counters,
                   demoted, call>>

\* currentLLM returns the client; then either the goroutine is inside
\* GeneratePage or it renders the template and returns
CurrentLLMReturn(i) ==
    /\ req[i].pc = "currentLLM_cs"
    /\ mu' = RUnlock(i)
    /\ IF UsesComposer(req[i].useLLM, llmClient)
       THEN /\ req' = [req EXCEPT ![i].pc = "generate", ![i].client = llmClient,
                                  ![i].composes = @ + 1]
            /\ queue' = queue
       ELSE /\ req' = [req EXCEPT ![i] = Returned(@, "template")]
            /\ queue' = RenderTemplate(queue, i)
    /\ UNCHANGED <<session, disk, uiPc, uiLoc, widgets, navResult, counters,
                   demoted, call>>

\* GeneratePage returns a page: renderHTML, return
GenerateSucceeds(i) ==
    /\ req[i].pc = "generate"
    /\ NoError \in GeneratePageErrors(req[i].client)
    /\ queue' = stopSpinner(renderHTML(queue, ComposedPage(SourceURL(req[i].target), i)))
    /\ req' = [req EXCEPT ![i] = Returned([@ EXCEPT !.page = "ok"], "composed")]
    /\ UNCHANGED <<mu, session, disk, uiPc, uiLoc, widgets, navResult, counters,
                   demoted, call>>

\* how a GeneratePage call ended, for the fetch's record: the HTTP status
\* 429 of the answer, or any other error
ErrorClass(err) ==
    IF err = HTTPError(429) THEN "429" ELSE "other"

\* a variant of GenerateFails that calls GeneratePage once more after an
\* error that is not a rate limit
GenerateFailsThenRetries(i, err) ==
    /\ req[i].pc = "generate"
    /\ err \in GeneratePageErrors(req[i].client)
    /\ IF IsRateLimited(err)
       THEN /\ queue' = setStatus(queue, "LLM rate limited")
            /\ req' = [req EXCEPT ![i].pc = "setLastMode",
                                  ![i].page = ErrorClass(err)]
       ELSE IF req[i].composes < 2
       THEN /\ queue' = queue
            /\ req' = [req EXCEPT ![i].composes = @ + 1,
                                  ![i].page = ErrorClass(err)]
       ELSE /\ queue' = stopSpinner(renderError(queue, "LLM fallback"))
            /\ req' = [req EXCEPT ![i] =
                          Returned([@ EXCEPT !.page = ErrorClass(err)], "error")]
    /\ UNCHANGED <<mu, session, disk, uiPc, uiLoc, widgets, navResult, counters,
                   demoted, call>>

\* GeneratePage returns an error: a rate limit goes on to setLastMode(false),
\* any other error is reported and the goroutine returns
GenerateFails(i, err) ==
    /\ req[i].pc = "generate"
    /\ err \in GeneratePageErrors(req[i].client)
    /\ IF IsRateLimited(err)
       THEN /\ queue' = setStatus(queue, "LLM rate limited")
            /\ req' = [req EXCEPT ![i].pc = "setLastMode",
                                  ![i].page = ErrorClass(err)]
       ELSE /\ queue' = stopSpinner(renderError(queue, "LLM fallback"))
            /\ req' = [req EXCEPT ![i] =
                          Returned([@ EXCEPT !.page = ErrorClass(err)], "error")]
    /\ UNCHANGED <<mu, session, disk, uiPc, uiLoc, widgets, navResult, counters,
                   demoted, call>>

\* setLastMode(false) takes the write lock
SetLastModeLock(i) ==
    /\ req[i].pc = "setLastMode"
    /\ CanLock
    /\ mu' = Lock(i)
    /\ req' = [req EXCEPT ![i].pc = "setLastMode_cs"]
    /\ UNCHANGED <<session, disk, uiPc, uiLoc, queue, widgets, navResult, counters,
                   demoted, call>>

\* setLastMode(false) writes and unlocks; then the template is rendered
SetLastModeUnlock(i) ==
    /\ req[i].pc = "setLastMode_cs"
    /\ llmLastMode' = setLastMode(FALSE).mode
    /\ llmLastSet' = setLastMode(FALSE).set
    /\ mu' = Unlock(i)
    /\ queue' = RenderTemplate(queue, i)
    /\ req' = [req EXCEPT ![i] = Returned(@, "template")]
    /\ demoted' = TRUE
    /\ UNCHANGED call
    /\ UNCHANGED <<llmClient, llmSettings, llmPreferred, lastSource, disk, uiPc,
                   uiLoc, widgets, navResult, counters>>

\* ------------------------------------------------------------------ renderSimple fails
\* a variant of RenderFailure that dispatches nothing for the fetch
RenderFailureSilent(q) == stopSpinner(q)

\* the tail of handleScrape when renderSimple returns an error (the template's
\* Execute fails): renderError, return
RenderFailure(q) == stopSpinner(renderError(q, "Render error"))

\* currentLLM returns the client, the composer is not used, and renderSimple
\* returns an error
CurrentLLMReturnRenderFails(i) ==
    /\ req[i].pc = "currentLLM_cs"
    /\ ~UsesComposer(req[i].useLLM, llmClient)
    /\ mu' = RUnlock(i)
    /\ req' = [req EXCEPT ![i] = Returned(@, "error")]
    /\ queue' = RenderFailure(queue)
    /\ UNCHANGED <<session, disk, uiPc, uiLoc, widgets, navResult, counters,
                   demoted, call>>

\* setLastMode(false) writes and unlocks, and renderSimple returns an error
SetLastModeUnlockRenderFails(i) ==
    /\ req[i].pc = "setLastMode_cs"
    /\ llmLastMode' = setLastMode(FALSE).mode
    /\ llmLastSet' = setLastMode(FALSE).set
    /\ mu' = Unlock(i)
    /\ queue' = RenderFailure(queue)
    /\ req' = [req EXCEPT ![i] = Returned(@, "error")]
    /\ demoted' = TRUE
    /\ UNCHANGED call
    /\ UNCHANGED <<llmClient, llmSettings, llmPreferred, lastSource, disk, uiPc,
                   uiLoc, widgets, navResult, counters>>

\* ------------------------------------------------------------------ the idle queue
\* the main loop runs the oldest queued callback
RunCallback ==
    /\ uiPc = "idle"
    /\ queue # << >>
    /\ LET cb == Head(queue) IN
       /\ infoLabel' = CASE cb.kind = "setStatus" -> cb.text
                         [] cb.kind = "renderHTML" -> "Done"
                         [] cb.kind = "renderError" -> "Error"
                         [] OTHER -> infoLabel
       /\ view' = IF cb.kind = "renderHTML" THEN cb.html ELSE view
       /\ bubble' = CASE cb.kind = "renderError" -> cb.text
                      [] cb.kind = "renderHTML" -> None
                      [] OTHER -> bubble
       /\ spinner' = CASE cb.kind = "startSpinner" -> TRUE
                       [] cb.kind = "stopSpinner" -> FALSE
                       [] OTHER -> spinner
    /\ queue' = Tail(queue)
    /\ UNCHANGED <<mu, session, disk, uiPc, uiLoc, llmBtn, navResult, req, counters,
                   demoted, call>>

\* ------------------------------------------------------------------ settings
\* a variant of TrimSettings that takes the fields as they were typed
TrimSettingsNone(st) ==
    [BaseURL |-> st.BaseURL, Model |-> st.Model, APIKey |-> st.APIKey]

\* the trimming of the three fields in openSettingsDialog and applySettings
TrimSettings(st) ==
    [BaseURL |-> TrimSpace(st.BaseURL), Model |-> TrimSpace(st.Model),
     APIKey |-> TrimSpace(st.APIKey)]

\* settingsBtn "clicked", the dialog saved: openSettingsDialog calls
\* applySettings, which builds the client, takes the write lock and assigns
\* a.llmClient
SaveDialog(st, prefer) ==
    /\ uiPc = "idle"
    /\ ActionAllowed
    /\ nupd < limits.updates
    /\ CanLock
    /\ mu' = Lock(UI)
    /\ nupd' = nupd + 1
    /\ nact' = nact + 1
    /\ llmClient' = NewClient(TrimSettings(TrimSettings(st)))
    /\ uiLoc' = [NoLocals EXCEPT !.settings = TrimSettings(TrimSettings(st)),
                                 !.prefer = prefer]
    /\ uiPc' = "apply_preferred"
    /\ UNCHANGED <<llmSettings, llmPreferred, llmLastMode, llmLastSet, lastSource,
                   disk, queue, widgets, navResult, req, nreq,
                   demoted, call, limits>>

\* a variant of ApplyPreferred that forgets the sticky mode
ApplyPreferredForgetsMode ==
    /\ uiPc = "apply_preferred"
    /\ llmPreferred' = uiLoc.prefer
    /\ llmLastSet' = FALSE
    /\ llmLastMode' = FALSE
    /\ uiPc' = "apply_settings"
    /\ UNCHANGED <<mu, llmClient, llmSettings, lastSource,
                   disk, uiLoc, queue, widgets, navResult, req, counters,
                   demoted, call>>

\* applySettings: a.llmPreferred = prefer
ApplyPreferred ==
    /\ uiPc = "apply_preferred"
    /\ llmPreferred' = uiLoc.prefer
    /\ uiPc' = "apply_settings"
    /\ UNCHANGED <<mu, llmClient, llmSettings, llmLastMode, llmLastSet, lastSource,
                   disk, uiLoc, queue, widgets, navResult, req, counters,
                   demoted, call>>

\* persist.Data built by applySettings
SettingsData(st, prefer) ==
    [BaseURL |-> st.BaseURL, Model |-> st.Model, APIKey |-> st.APIKey,
     UseLLM |-> prefer]

\* a variant of ApplySettings that keeps the old settings when Save fails
ApplySettingsUnlessSaveFails(saved) ==
    /\ uiPc = "apply_settings"
    /\ llmSettings' = IF saved THEN uiLoc.settings ELSE llmSettings
    /\ mu' = Unlock(UI)
    /\ IF saved
       THEN /\ persisted' = IF settingsStore = None THEN persisted
                            ELSE SettingsData(uiLoc.settings, uiLoc.prefer)
            /\ uiPc' = "updateLLMButton"
            /\ UNCHANGED <<uiLoc, queue>>
       ELSE /\ settingsStore # None
            /\ queue' = setStatus(queue, "Settings error")
            /\ uiPc' = "idle"
            /\ uiLoc' = NoLocals
            /\ UNCHANGED persisted
    /\ UNCHANGED <<llmClient, llmPreferred, llmLastMode, llmLastSet, lastSource,
                   settingsStore, widgets, navResult, req, counters,
                   demoted, call>>

\* applySettings: a.llmSettings = settings (and the copies kept in a.cfg),
\* unlock; then Store.Save when there is a store.  saved = FALSE is Save
\* failing: applySettings and openSettingsDialog return the error and the
\* click handler reports it.
ApplySettings(saved) ==
    /\ uiPc = "apply_settings"
    /\ llmSettings' = uiLoc.settings
    /\ mu' = Unlock(UI)
    /\ IF saved
       THEN /\ persisted' = IF settingsStore = None THEN persisted
                            ELSE SettingsData(uiLoc.settings, uiLoc.prefer)
            /\ uiPc' = "updateLLMButton"
            /\ UNCHANGED <<uiLoc, queue>>
       ELSE /\ settingsStore # None
            /\ queue' = setStatus(queue, "Settings error")
            /\ uiPc' = "idle"
            /\ uiLoc' = NoLocals
            /\ UNCHANGED persisted
    /\ UNCHANGED <<llmClient, llmPreferred, llmLastMode, llmLastSet, lastSource,
                   settingsStore, widgets, navResult, req, counters,
                   demoted, call>>

\* App.llmAvailable, from the client currentLLM returned
llmAvailable(client) == ~client.nil /\ Available(client)

\* the status openSettingsDialog reports
SettingsStatus(preferLLM, available) ==
    IF preferLLM /\ ~available THEN "LLM preference saved but endpoint unavailable"
    ELSE IF available THEN "LLM configured"
    ELSE "LLM disabled"

\* openSettingsDialog after applySettings returned nil: updateLLMButton, then
\* the switch that reports the status
UpdateLLMButton ==
    /\ uiPc = "updateLLMButton"
    /\ CanRLock
    /\ llmBtn' = llmAvailable(llmClient)
    /\ queue' = setStatus(queue, SettingsStatus(uiLoc.prefer, llmAvailable(llmClient)))
    /\ uiPc' = "idle"
    /\ uiLoc' = NoLocals
    /\ UNCHANGED <<mu, session, disk, infoLabel, view, bubble, spinner, navResult,
                   req, counters,
                   demoted, call>>

\* ------------------------------------------------------------------ specification
Next ==
    \/ \E text \in EntryTexts : ClickReader(text)
    \/ \E text \in EntryTexts : ClickCompose(text)
    \/ \E text \in EntryTexts : PressEnter(text)
    \/ \E target \in NavTargets : Navigate(target)
    \/ NavigationMode
    \/ UISetLastMode
    \/ \E st \in SettingsInputs : SaveDialog(st, st.prefer)
    \/ ApplyPreferred
    \/ \E saved \in BOOLEAN : ApplySettings(saved)
    \/ UpdateLLMButton
    \/ RunCallback
    \/ \E i \in Requests : Start(i)
    \/ \E i \in Requests : ScrapeFails(i)
    \/ \E i \in Requests : ScrapeSucceeds(i)
    \/ \E i \in Requests : SetLastSourceUnlock(i)
    \/ \E i \in Requests : CurrentLLMLock(i)
    \/ \E i \in Requests : CurrentLLMReturn(i)
    \/ \E i \in Requests : GenerateSucceeds(i)
    \/ \E i \in Requests, err \in ComposeErrors : GenerateFails(i, err)
    \/ \E i \in Requests : SetLastModeLock(i)
    \/ \E i \in Requests : SetLastModeUnlock(i)

Spec == Init /\ [][Next]_vars

\* ------------------------------------------------------------------ what a step shows
\* the callbacks a step adds at the end of the idle queue
Queued ==
    IF Len(queue') > Len(queue)
    THEN SubSeq(queue', Len(queue) + 1, Len(queue'))
    ELSE << >>

\* the step queues no page of fetch i
QueuesNothingFor(i) ==
    \A k \in 1..Len(Queued) : Queued[k].html.req # i

\* the template page of the document fetch i extracted from its target
TemplateOf(i) ==
    Callback("renderHTML", "Done",
             [kind |-> "template", src |-> req[i].target, req |-> i])

FailureReport(msg) == Callback("renderError", msg, NoDocument)
StatusUpdate(text) == Callback("setStatus", text, NoDocument)
SpinnerStop == Callback("stopSpinner", "", NoDocument)

\* fetch i returns in this step
Finishes(i) == req[i].pc # "done" /\ req'[i].pc = "done"

\* the sticky mode: whether one is recorded, and which
StickyMode == <<llmLastSet, llmLastMode>>

\* ------------------------------------------------------------------ the fetch sequence
\* C1, the fallback itself: when the composer call of fetch i ends with HTTP
\* 429 the fetch queues the rate-limit status and goes on; the step in which
\* it returns records the template mode as the sticky mode and queues the
\* template page of the extracted document, and the fetch has reported no
\* failure.
RateLimitStep ==
    \A i \in Requests :
        /\ (req[i].page = None /\ req'[i].page = "429") =>
              /\ req'[i].pc # "done"
              /\ Queued = << StatusUpdate("LLM rate limited") >>
        /\ (req[i].page = "429" /\ Finishes(i)) =>
              /\ req'[i].outs = <<"template">>
              /\ Queued = << TemplateOf(i), SpinnerStop >>
              /\ llmLastSet' /\ ~llmLastMode'

\* C1, the navigation that follows: a navigation whose mode is decided after
\* a rate-limit fallback, with no explicit user action recorded since, is
\* decided as template.
NextNavigationIsTemplate ==
    (uiPc = "navigationMode" /\ uiPc' = "setLastMode" /\ demoted) => ~uiLoc'.useLLM

\* C1: a composed fetch whose extraction succeeds and whose composer call
\* fails with HTTP 429 dispatches the template render of the document, not a
\* failure report, and sets the sticky mode to template, so that the next
\* in-page navigation with no explicit user action in between is decided as
\* template.
C1_RateLimitFallback == [][RateLimitStep /\ NextNavigationIsTemplate]_vars

C3_ExtractionFailureStops ==
    [][\A i \in Requests :
          /\ (req[i].doc = None /\ req'[i].doc = "failed") =>
                /\ req'[i].pc = "done"
                /\ req'[i].outs = <<"error">>
                /\ req'[i].composes = 0
                /\ Queued = << FailureReport("Scrape failed"), SpinnerStop >>
          /\ (req[i].doc = None /\ req'[i] # req[i]) => lastSource' = lastSource
          /\ req[i].doc = "failed" =>
                /\ req[i].pc = "done"
                /\ req'[i] = req[i]
                /\ QueuesNothingFor(i)]_vars

C3_Witness ==
    \E i \in Requests :
        /\ req[i].doc = "failed"
        /\ req[i].composes = 0
        /\ bubble = "Scrape failed"
        /\ lastSource = UrlBase
        /\ view.kind = "template"

\* the fetch has recorded its document's source and has not returned
PastExtraction == {"currentLLM", "currentLLM_cs", "generate", "setLastMode",
                   "setLastMode_cs"}

\* C4: once Scrape has returned a document the fetch writes the document's
\* source URL to lastSource, and only then may it call the composer; while
\* no other fetch has extracted a document lastSource holds that URL, and no
\* later step of the fetch changes lastSource, whether the composer call
\* succeeds, is rate-limited or fails.
C4_LastSourceIsRecorded ==
    [][\A i \in Requests :
          /\ (req[i].pc = "setLastSource_cs" /\ req'[i].pc # "setLastSource_cs") =>
                /\ lastSource' = req[i].target
                /\ req'[i].composes = 0
          /\ req'[i].composes > req[i].composes =>
                req[i].doc = "ok" /\ req[i].pc \in PastExtraction
          /\ (req[i].pc \in PastExtraction /\ \A j \in Requests \ {i} : req[j].doc # "ok") =>
                lastSource = req[i].target
          /\ ((req[i].pc \in PastExtraction \/ req[i].page # None) /\ req'[i] # req[i]) =>
                lastSource' = lastSource]_vars

C4_Witness ==
    \E i \in Requests :
        /\ req[i].page = "other"
        /\ req[i].pc = "done"
        /\ \A j \in Requests \ {i} : req[j].doc # "ok"
        /\ lastSource = UrlBase

\* ------------------------------------------------------------------ the session lock
\* applySettings is between its Lock and its Unlock
MidUpdate == uiPc \in {"apply_preferred", "apply_settings"}

\* the configurations the program is given as a whole: the client built from
\* the settings, the settings, and the default-compose flag that came with them
Configurations ==
    { << NewClient([BaseURL |-> start.base, Model |-> <<"m">>, APIKey |-> EmptyStr]),
         [BaseURL |-> start.base, Model |-> <<"m">>, APIKey |-> EmptyStr],
         start.use >> : start \in Startups }
    \cup
    { << NewClient(TrimSettings(st)), TrimSettings(st), st.prefer >> :
         st \in SettingsInputs }

\* C5: a settings update is atomic for every reader of the session.  While
\* applySettings is between its Lock and its Unlock no fetch is inside a
\* section under the lock; a fetch inside currentLLM sees a client, stored
\* settings and default-compose flag that belong to one configuration, never
\* a mixture of the old and the new one; and the client a fetch hands to
\* GeneratePage is the client of one configuration.
C5_SettingsUpdateIsAtomic ==
    /\ MidUpdate => (mu.writer = {UI} /\ mu.readers = {})
    /\ \A i \in Requests :
          /\ req[i].pc = "currentLLM_cs" =>
                /\ ~MidUpdate
                /\ <<llmClient, llmSettings, llmPreferred>> \in Configurations
          /\ req[i].pc = "generate" =>
                \E c \in Configurations : req[i].client = c[1]

C5_Witness ==
    /\ uiPc = "apply_settings"
    /\ <<llmClient, llmSettings, llmPreferred>> \notin Configurations
    /\ \E i \in Requests : req[i].pc = "currentLLM"

\* C6: no step of a fetch changes what the user sees.  A step in which a
\* fetch moves leaves the label, the view, the bubble, the spinner and the
\* compose button as they are and at most adds callbacks at the end of the
\* idle queue; the label, the view, the bubble and the spinner change only
\* when the idle main loop runs the oldest queued callback, and the compose
\* button only inside the settings handler on the main loop.
C6_OnlyTheMainLoopTouchesTheView ==
    [][/\ (\E i \in Requests : req[i].pc # "none" /\ req'[i] # req[i]) =>
             /\ widgets' = widgets
             /\ <<uiPc, uiLoc>>' = <<uiPc, uiLoc>>
             /\ queue' = queue \o Queued
       /\ <<infoLabel, view, bubble, spinner>>' # <<infoLabel, view, bubble, spinner>> =>
             /\ uiPc = "idle"
             /\ queue # << >>
             /\ queue' = Tail(queue)
             /\ req' = req
       /\ llmBtn' # llmBtn => (uiPc = "updateLLMButton" /\ req' = req)]_vars

C6_Witness ==
    /\ view = NoDocument
    /\ infoLabel = "Ready"
    /\ ~spinner
    /\ \E i \in Requests : req[i].pc = "done" /\ req[i].outs = <<"composed">>
    /\ \E k \in 1..Len(queue) : queue[k].kind = "renderHTML"

RECURSIVE LastRender(_, _)
\* the page the view shows once the queue q has been run, if it shows the
\* page shown now
LastRender(q, shown) ==
    IF q = << >> THEN shown
    ELSE LastRender(Tail(q), IF Head(q).kind = "renderHTML" THEN Head(q).html
                             ELSE shown)

\* C7: queued callbacks run in the order they were queued, whichever fetch
\* queued them.  The queue changes only by losing its oldest callback, whose
\* effect is then the one applied, or by growing at its end; running a
\* callback never changes the page the view will show once the queue is
\* drained, and a step that queues a render makes that render's page the
\* one it will show: the last render queued wins.
C7_CallbacksRunInQueueOrder ==
    [][/\ queue' # queue =>
             \/ queue # << >> /\ queue' = Tail(queue)
             \/ Len(queue') > Len(queue) /\ SubSeq(queue', 1, Len(queue)) = queue
       /\ Len(queue') < Len(queue) =>
             /\ view' = IF Head(queue).kind = "renderHTML" THEN Head(queue).html
                        ELSE view
             /\ LastRender(queue', view') = LastRender(queue, view)
       /\ \A i \in Requests :
             (Finishes(i) /\ req'[i].outs[1] # "error") =>
                 /\ LastRender(queue', view').req = i
                 /\ LastRender(queue', view').kind = req'[i].outs[1]]_vars

\* both fetches have returned and every callback has run: the view shows the
\* page of the fetch that was started first
C7_Witness ==
    /\ queue = << >>
    /\ req[1].pc = "done" /\ req[2].pc = "done"
    /\ req[1].outs = <<"template">> /\ req[2].outs = <<"composed">>
    /\ view.req = 1

\* C8: the session lock is never held across a network call.  A fetch that
\* is inside Scraper.Scrape or inside GeneratePage holds App.mu neither for
\* writing nor for reading; the holders are the threads inside one of the
\* short sections that copy or assign fields.
C8_NoLockAcrossNetworkCalls ==
    /\ \A i \in Requests :
          req[i].pc \in {"scrape", "generate"} =>
              i \notin mu.writer /\ i \notin mu.readers
    /\ \A who \in mu.writer \cup mu.readers :
          IF who = UI THEN MidUpdate
          ELSE req[who].pc \in {"setLastSource_cs", "currentLLM_cs", "setLastMode_cs"}

C8_Witness ==
    /\ req[1].pc = "generate"
    /\ req[2].pc = "scrape"
    /\ mu.writer = {UI}

\* C9: the main loop never calls the extractor or the composer.  A step in
\* which a fetch's count of Scrape or GeneratePage calls grows is a step of
\* that fetch's goroutine and leaves the main loop where it is; a fetch is
\* started only by the handler's last step, after the mode is decided, one
\* fetch per accepted request, with no call made yet, and with that step the
\* handler has returned.
C9_MainLoopStartsOneWorkerAndReturns ==
    [][/\ \A i \in Requests :
             (req'[i].scrapes # req[i].scrapes \/ req'[i].composes # req[i].composes) =>
                 /\ req[i].pc \notin {"none", "done"}
                 /\ <<uiPc, uiLoc>>' = <<uiPc, uiLoc>>
       /\ (uiPc = "setLastMode" /\ uiPc' # uiPc) =>
             /\ uiPc' = "idle"
             /\ nreq' = nreq + 1
       /\ nreq' # nreq =>
             /\ uiPc = "setLastMode" /\ uiPc' = "idle"
             /\ nreq' = nreq + 1
             /\ req' = [req EXCEPT ![nreq + 1] =
                           [IdleRequest EXCEPT !.pc = "start",
                                               !.target = uiLoc.target,
                                               !.useLLM = uiLoc.useLLM]]
       /\ \A i \in Requests :
             (req[i].pc = "none" /\ req'[i] # req[i]) => nreq' = i]_vars

\* the main loop is handling the next action while both calls are under way
C9_Witness ==
    /\ uiPc = "navigationMode"
    /\ req[1].pc = "generate"
    /\ req[2].pc = "scrape"

\* the mode an explicit action names
ExplicitMode(origin) == origin = "compose"

\* C10: an explicit action on a non-empty URL starts its fetch in exactly
\* the mode the action names (reader: template, compose: composed).  The
\* handler takes that mode whatever the sticky mode and the composer's
\* availability are, and its last step records the mode as the sticky mode
\* and starts the fetch with it; nothing the fetch does later changes the
\* mode it was started with.
C10_ExplicitActionFixesTheMode ==
    [][/\ (uiPc = "idle" /\ uiPc' = "setLastMode"
              /\ uiLoc'.origin \in {"reader", "compose"}) =>
             /\ uiLoc'.useLLM = ExplicitMode(uiLoc'.origin)
             /\ uiLoc'.target # EmptyStr
       /\ (uiPc = "setLastMode" /\ uiPc' = "idle"
              /\ uiLoc.origin \in {"reader", "compose"}) =>
             /\ llmLastSet'
             /\ llmLastMode' = ExplicitMode(uiLoc.origin)
             /\ req'[nreq'].pc = "start"
             /\ req'[nreq'].useLLM = ExplicitMode(uiLoc.origin)
             /\ req'[nreq'].target = uiLoc.target
       /\ \A i \in Requests :
             (req[i].pc \notin {"none", "done"} /\ req'[i].pc # "done") =>
                 req'[i].useLLM = req[i].useLLM]_vars

\* a compose click has started a composed fetch, and recorded composed as
\* the sticky mode, although the composer is unavailable and an earlier
\* fetch was rate-limited and has returned
C10_Witness ==
    \E i \in Requests :
        /\ req[i].pc = "start"
        /\ req[i].useLLM
        /\ ~Available(llmClient)
        /\ llmLastSet /\ llmLastMode
        /\ \E j \in Requests : req[j].pc = "done" /\ req[j].page = "429"

\* ------------------------------------------------------------------ the mode of a navigation
\* C11: the step in which the navigation handler decides its mode decides
\* composed exactly when the composer is available and either the sticky mode
\* is recorded as composed, or no sticky mode is recorded and the
\* default-compose flag is set; in every other case it decides template.
C11_NavigationModeDecision ==
    [][(uiPc = "navigationMode" /\ uiPc' # uiPc) =>
          /\ uiPc' = "setLastMode"
          /\ uiLoc'.useLLM =
                (/\ llmClient.baseURL # EmptyStr
                 /\ \/ llmLastSet /\ llmLastMode
                    \/ ~llmLastSet /\ llmPreferred)]_vars

\* the handler has decided template for a navigation although the sticky
\* mode is composed and composed is the default: the composer is unavailable
C11_Witness ==
    /\ uiPc = "setLastMode"
    /\ uiLoc.origin = "nav"
    /\ ~uiLoc.useLLM
    /\ llmLastSet /\ llmLastMode
    /\ llmPreferred
    /\ llmClient.baseURL = EmptyStr

\* C12: a navigation handled while the sticky mode is composed and the
\* composer is unavailable starts its own fetch in template mode and leaves
\* the sticky mode composed, so that a navigation made once the composer is
\* available again is decided as composed.
C12_UnavailableNavigationKeepsStickyMode ==
    [][(/\ uiPc = "setLastMode" /\ uiPc' = "idle"
        /\ uiLoc.origin = "nav"
        /\ llmLastSet /\ llmLastMode
        /\ llmClient.baseURL = EmptyStr) =>
          /\ ~req'[nreq'].useLLM
          /\ llmLastSet' /\ llmLastMode']_vars

\* C13: once a rate limit has set the sticky mode to template it stays
\* template, and every navigation is decided as template, for as long as no
\* explicit user action has recorded a mode since: no navigation, settings
\* update or returning fetch sets it back to composed.
C13_DemotionLastsUntilExplicitAction ==
    demoted =>
        /\ llmLastSet /\ ~llmLastMode
        /\ ~navigationMode(llmLastMode, llmLastSet, llmClient, llmPreferred)

\* ------------------------------------------------------------------ settings updates
\* the three fields of a submitted dialog with surrounding spaces removed
Trimmed(st) ==
    [BaseURL |-> TrimSpace(st.BaseURL), Model |-> TrimSpace(st.Model),
     APIKey |-> TrimSpace(st.APIKey)]

\* the client and the flag change only inside applySettings
ConfigurationChangesOnlyInApplySettings ==
    <<llmClient, llmSettings, llmPreferred>>' # <<llmClient, llmSettings, llmPreferred>>
        => (uiPc = "idle" /\ uiPc' = "apply_preferred") \/ MidUpdate

\* C14: when Save fails, applySettings returns the error, which the handler
\* reports, and nothing in memory is rolled back: the client, the stored
\* settings and the default-compose flag are the submitted values, nothing
\* was persisted, and they stay until the next update, so a fetch that
\* reaches GeneratePage afterwards takes that client.
C14_SaveFailureKeepsNewSettings ==
    [][/\ (uiPc = "apply_settings" /\ uiPc' = "idle") =>
             /\ settingsStore # None
             /\ Queued = << StatusUpdate("Settings error") >>
             /\ persisted' = persisted
             /\ llmSettings' = uiLoc.settings
             /\ llmPreferred' = uiLoc.prefer
             /\ llmClient' = NewClient(uiLoc.settings)
             /\ mu'.writer = {}
       /\ ConfigurationChangesOnlyInApplySettings
       /\ \A i \in Requests :
             (req[i].pc = "currentLLM_cs" /\ req'[i].pc = "generate") =>
                 req'[i].client = llmClient]_vars

\* Save failed, and a fetch is inside GeneratePage with the new client
C14_Witness ==
    /\ infoLabel = "Settings error"
    /\ persisted.BaseURL = EmptyStr
    /\ llmSettings.BaseURL = <<"http://other", "/">>
    /\ \E i \in Requests :
          req[i].pc = "generate" /\ req[i].client.baseURL = <<"http://other">>

\* C15: a settings update that returns without error leaves in memory the
\* submitted base URL, model and API key with surrounding spaces removed and
\* the submitted flag, and a client built from exactly those values; with a
\* settings store the same values are what was persisted, without one
\* nothing is.
C15_SuccessfulUpdateInstallsSubmitted ==
    [][/\ \A st \in SettingsInputs :
             SaveDialog(st, st.prefer) =>
                 /\ uiLoc'.settings = Trimmed(st)
                 /\ uiLoc'.prefer = st.prefer
       /\ (uiPc = "apply_settings" /\ uiPc' = "updateLLMButton") =>
             /\ llmSettings' = uiLoc.settings
             /\ llmPreferred' = uiLoc.prefer
             /\ llmClient' = NewClient(uiLoc.settings)
             /\ settingsStore # None =>
                   persisted' = [BaseURL |-> uiLoc.settings.BaseURL,
                                 Model |-> uiLoc.settings.Model,
                                 APIKey |-> uiLoc.settings.APIKey,
                                 UseLLM |-> uiLoc.prefer]
             /\ settingsStore = None => persisted' = persisted]_vars

C15_Witness ==
    /\ uiPc = "updateLLMButton"
    /\ settingsStore # None
    /\ persisted = [BaseURL |-> <<"http://other", "/">>, Model |-> <<"m">>,
                    APIKey |-> <<"key">>, UseLLM |-> FALSE]
    /\ llmSettings = [BaseURL |-> <<"http://other", "/">>, Model |-> <<"m">>,
                      APIKey |-> <<"key">>]
    /\ llmClient.baseURL = <<"http://other">>
    /\ ~llmPreferred

\* ------------------------------------------------------------------ the resolver by itself
\* candidate targets: empty, blank, the schemes the handler must refuse,
\* absolute http and https URLs (padded, in upper case, malformed), and
\* references without a scheme
ResolverTargets ==
    { EmptyStr, <<" ">>,
      <<"javascript:", "alert(1)">>, <<"file:", "///etc/passwd">>,
      <<"myapp:", "//open">>,
      UrlBase, <<"http:", "//b.example", "/p">>,
      <<" ">> \o UrlBase \o <<" ">>,
      <<"HTTPS:", "//a.example", "/x">>,
      <<"https:", "//a.example", "/%zz">>,
      <<"/y">>, <<" ", "/y", " ">>, <<"/y", "/z">>, <<"y">>,
      <<"//b.example", "/z">>, <<"/%zz">> }

\* what lastSourceURL() can return: nothing, or the URL of a fetched page
ResolverBases ==
    { EmptyStr, UrlBase, <<"https:", "//a.example">>,
      <<"http:", "//b.example", "/dir", "/page">> }

Rejected == [ok |-> FALSE, url |-> EmptyStr]

InitResolver ==
    \E t \in ResolverTargets, b \in ResolverBases :
        Started([requests |-> 0, updates |-> 0, actions |-> 0],
                [fn |-> "resolveTarget", arg |-> [target |-> t, base |-> b],
                 done |-> FALSE, ret |-> Rejected])

\* one call of resolveTarget
ResolveTargetCall ==
    /\ call.fn = "resolveTarget"
    /\ ~call.done
    /\ call' = [call EXCEPT !.done = TRUE,
                            !.ret = resolveTarget(call.arg.target, call.arg.base)]
    /\ UNCHANGED <<mu, session, disk, uiPc, uiLoc, queue, widgets, navResult, req,
                   counters, demoted>>

NextResolver == ResolveTargetCall

SpecResolver == InitResolver /\ [][NextResolver]_vars

\* a candidate as the handler sees it: without the surrounding spaces
Candidate == TrimSpace(call.arg.target)
\* the candidate names a scheme; the reference resolved against the base
HasScheme == IsAbs(Candidate)
SchemeOf(u) == LowerScheme(Head(u))

\* C16: the resolver accepts a candidate exactly when it is non-empty and
\* either absolute with scheme http or https, or relative with a non-empty
\* lastSourceURL and a resolved scheme of http or https; an accepted relative
\* candidate yields the resolved absolute URL (/y against
\* https://a.example/base gives https://a.example/y), and the empty candidate,
\* javascript:, file:, a custom scheme and a relative candidate with no prior
\* source are all rejected with no URL.
C16_ResolverAcceptance ==
    (call.fn = "resolveTarget" /\ call.done) =>
        /\ call.ret.ok <=>
              /\ Candidate # EmptyStr
              /\ ~ParseFails(Candidate)
              /\ \/ HasScheme /\ SchemeOf(Candidate) \in {"http:", "https:"}
                 \/ /\ ~HasScheme
                    /\ call.arg.base # EmptyStr
                    /\ SchemeOf(call.arg.base) \in {"http:", "https:"}
        /\ ~call.ret.ok => call.ret.url = EmptyStr
        /\ (call.ret.ok /\ ~HasScheme) =>
              /\ IsAbs(call.ret.url)
              /\ SubSeq(call.ret.url, 1, 1) = SubSeq(call.arg.base, 1, 1)
              /\ Head(Candidate) \notin Hosts =>
                    SubSeq(call.ret.url, 1, 2) = SubSeq(call.arg.base, 1, 2)
        /\ (Candidate = <<"/y">> /\ call.arg.base = UrlBase) =>
              call.ret = [ok |-> TRUE, url |-> <<"https:", "//a.example", "/y">>]
        /\ (Candidate = <<"y">>
              /\ call.arg.base = <<"http:", "//b.example", "/dir", "/page">>) =>
              call.ret.url = <<"http:", "//b.example", "/dir", "/y">>
        /\ Candidate \in { EmptyStr, <<"javascript:", "alert(1)">>,
                           <<"file:", "///etc/passwd">>, <<"myapp:", "//open">> }
              => ~call.ret.ok
        /\ (~HasScheme /\ call.arg.base = EmptyStr) => ~call.ret.ok

\* a padded /y was resolved against the page fetched last
C16_Witness ==
    /\ call.fn = "resolveTarget" /\ call.done
    /\ call.arg = [target |-> <<" ", "/y", " ">>, base |-> UrlBase]
    /\ call.ret = [ok |-> TRUE, url |-> UrlY]

\* ------------------------------------------------------------------ the navigation handler
\* the navigation handler is between its call of resolveTarget and its return
InNavigation == uiPc \in {"navigationMode", "setLastMode"} /\ uiLoc.origin = "nav"

\* C17: the navigation handler returns true exactly when the resolver
\* accepts the target, and exactly then it starts one fetch, of the resolved
\* URL; for a rejected target it returns false at once, starts no fetch, and
\* leaves the sticky mode and the last source as they were.
C17_HandlerFollowsResolver ==
    [][/\ \A t \in NavTargets :
             Navigate(t) =>
                 LET r == resolveTarget(t, lastSource) IN
                 /\ req' = req /\ nreq' = nreq
                 /\ IF r.ok
                    THEN /\ InNavigation'
                         /\ uiLoc'.target = r.url
                         /\ navResult' = navResult
                    ELSE /\ navResult' = "false"
                         /\ uiPc' = "idle"
                         /\ queue' = queue
                         /\ UNCHANGED <<llmLastMode, llmLastSet, lastSource>>
       /\ (InNavigation /\ ~InNavigation') =>
             /\ uiPc' = "idle"
             /\ navResult' = "true"
             /\ nreq' = nreq + 1
             /\ req'[nreq'].pc = "start"
             /\ req'[nreq'].target = uiLoc.target
             /\ \A i \in Requests \ {nreq'} : req'[i] = req[i]
       /\ (InNavigation /\ InNavigation') =>
             /\ nreq' = nreq
             /\ uiLoc'.target = uiLoc.target
             /\ navResult' = navResult
       /\ (navResult' # navResult /\ navResult' = "true") =>
             InNavigation /\ ~InNavigation']_vars

\* the link /y on a fetched page was followed: the handler returned true and
\* the fetch of the resolved URL has been started
C17_Witness ==
    /\ uiPc = "idle"
    /\ navResult = "true"
    /\ lastSource = UrlBase
    /\ \E i \in Requests : req[i].pc = "start" /\ req[i].target = UrlY

\* C18: resolveTarget is pure: the step that calls it performs no request
\* (no goroutine is started and none moves), changes no field of the session
\* or of the store, leaves no lock held, and what it decides and returns is
\* determined by the candidate and the last source alone.
C18_ResolverIsPure ==
    [][\A t \in NavTargets :
          Navigate(t) =>
              /\ UNCHANGED <<session, disk, mu, req, nreq, view>>
              /\ (uiPc' = "navigationMode") = resolveTarget(t, lastSource).ok
              /\ uiPc' = "navigationMode" =>
                    uiLoc'.target = resolveTarget(t, lastSource).url]_vars

\* a relative link was resolved while a fetch was in flight and a settings
\* update had changed the session
C18_Witness ==
    /\ uiPc = "navigationMode"
    /\ uiLoc.target = UrlY
    /\ lastSource = UrlBase
    /\ nupd = 1
    /\ \E i \in Requests : req[i].pc \notin {"none", "done"}

\* ------------------------------------------------------------------ the composer by itself
\* clients GeneratePage can be called on: nil, the disabled zero client, and
\* clients with an endpoint
ComposerClients ==
    { NilClient, NewClient(NoSettings),
      NewClient([BaseURL |-> LLMBase, Model |-> <<"m">>, APIKey |-> EmptyStr]),
      NewClient([BaseURL |-> <<"http://other", "/">>, Model |-> <<"m">>,
                 APIKey |-> <<"key">>]) }

NoPage == [page |-> EmptyStr, err |-> NoError, posts |-> 0]

InitGeneratePage ==
    \E c \in ComposerClients, reply \in Replies :
        Started([requests |-> 0, updates |-> 0, actions |-> 0],
                [fn |-> "GeneratePage", arg |-> [client |-> c, reply |-> reply],
                 done |-> FALSE, ret |-> NoPage])

\* one call of GeneratePage
GeneratePageCall ==
    /\ call.fn = "GeneratePage"
    /\ ~call.done
    /\ call' = [call EXCEPT !.done = TRUE,
                            !.ret = GeneratePage(call.arg.client, call.arg.reply)]
    /\ UNCHANGED <<mu, session, disk, uiPc, uiLoc, queue, widgets, navResult, req,
                   counters, demoted>>

\* the running application, and GeneratePage called on any client
InitCompose == Init \/ InitGeneratePage
NextCompose == Next \/ GeneratePageCall
SpecCompose == InitCompose /\ [][NextCompose]_vars

\* C19: handleScrape tests Available() before every call of GeneratePage: no
\* fetch is ever inside GeneratePage with a client that is nil or has no
\* endpoint, whatever a settings update does to the session's client in the
\* meantime; and GeneratePage called on such a client returns ErrUnavailable
\* and no page without sending a request.
C19_ComposerIsCalledOnlyWhenAvailable ==
    /\ \A i \in Requests :
          req[i].pc = "generate" =>
              /\ ~req[i].client.nil
              /\ req[i].client.baseURL # EmptyStr
              /\ req[i].useLLM
    /\ (call.fn = "GeneratePage" /\ call.done
           /\ (call.arg.client.nil \/ call.arg.client.baseURL = EmptyStr)) =>
          call.ret = [page |-> EmptyStr, err |-> ErrUnavailable, posts |-> 0]
    /\ (call.fn = "GeneratePage" /\ call.done /\ call.ret.err = ErrUnavailable) =>
          (call.arg.client.nil \/ call.arg.client.baseURL = EmptyStr)

\* a fetch is inside GeneratePage with the client it took, while a settings
\* update has since disabled the session's client
C19_Witness ==
    /\ llmClient.baseURL = EmptyStr
    /\ nupd = 1
    /\ \E i \in Requests :
          req[i].pc = "generate" /\ req[i].client.baseURL = LLMBase

\* GeneratePage was called on the disabled client and sent nothing
C19_DisabledClientWitness ==
    /\ call.fn = "GeneratePage" /\ call.done
    /\ call.arg.client = NewClient(NoSettings)
    /\ call.arg.reply = [status |-> 200, body |-> [json |-> TRUE, choices |-> << Markup >>]]
    /\ call.ret.posts = 0

\* ------------------------------------------------------------------ IsRateLimited by itself
\* the errors at the bottom of a chain
BottomErrors ==
    { HTTPError(st) : st \in {429, 500, 401, 400} }
    \cup { ErrUnavailable, ErrEmpty, ErrTransport, ErrDecode }

WrapMessages == {"post llm request", "decode llm response", "compose"}

\* no error, the errors themselves, and the errors wrapped once and twice
ErrorChains ==
    { NoError }
    \cup BottomErrors
    \cup { Wrap(m, e) : m \in WrapMessages, e \in BottomErrors }
    \cup { Wrap(m, Wrap(n, e)) : m \in WrapMessages, n \in WrapMessages,
                                 e \in BottomErrors }

InitIsRateLimited ==
    \E err \in ErrorChains :
        Started([requests |-> 0, updates |-> 0, actions |-> 0],
                [fn |-> "IsRateLimited", arg |-> err, done |-> FALSE, ret |-> FALSE])

\* one call of IsRateLimited
IsRateLimitedCall ==
    /\ call.fn = "IsRateLimited"
    /\ ~call.done
    /\ call' = [call EXCEPT !.done = TRUE, !.ret = IsRateLimited(call.arg)]
    /\ UNCHANGED <<mu, session, disk, uiPc, uiLoc, queue, widgets, navResult, req,
                   counters, demoted>>

NextIsRateLimited == IsRateLimitedCall

SpecIsRateLimited == InitIsRateLimited /\ [][NextIsRateLimited]_vars

\* the error at the bottom of a chain
Bottom(err) == err[Len(err)]

\* C20: IsRateLimited is true exactly for an error that is, or wraps, an
\* HTTPError with status 429; it is false for every other status (500, 401
\* among them), for ErrUnavailable, for the empty-page error, for transport
\* and decode errors, wrapped or not, and for no error.
C20_RateLimitIsStatus429 ==
    (call.fn = "IsRateLimited" /\ call.done) =>
        /\ call.ret <=>
              /\ call.arg # NoError
              /\ Bottom(call.arg) = [kind |-> "http", status |-> 429]
        /\ call.arg \in { NoError, HTTPError(500), HTTPError(401), ErrUnavailable,
                          ErrEmpty, Wrap("post llm request", ErrTransport),
                          Wrap("decode llm response", ErrDecode),
                          Wrap("compose", HTTPError(500)) }
              => ~call.ret
        /\ call.arg \in { HTTPError(429), Wrap("compose", HTTPError(429)),
                          Wrap("compose", Wrap("compose", HTTPError(429))) }
              => call.ret

\* a wrapped HTTPError with status 429 was recognised
C20_Witness ==
    /\ call.fn = "IsRateLimited" /\ call.done
    /\ call.arg = Wrap("compose", HTTPError(429))
    /\ call.ret

\* ------------------------------------------------------------------ empty compositions
\* the answer is a success whose first message is missing or sanitizes to nothing
EmptyAnswer(reply) ==
    /\ reply.status = 200
    /\ reply.body.json
    /\ \/ reply.body.choices = << >>
       \/ /\ reply.body.choices # << >>
          /\ sanitizeLLMOutput(reply.body.choices[1]) = EmptyStr

BeforeExtraction == {"none", "start"}
AfterComposition == {"setLastMode", "setLastMode_cs", "done"}

\* C22: nothing is retried: a fetch calls Scrape at most once and
\* GeneratePage at most once; after Scrape failed GeneratePage is never
\* called and the fetch is over, after GeneratePage failed (a rate limit
\* included) the fetch makes no further call, and there are no more calls
\* than fetches the user started.
C22_NothingIsRetried ==
    \A i \in Requests :
        /\ req[i].scrapes <= 1
        /\ req[i].composes <= 1
        /\ req[i].scrapes = (IF req[i].pc \in BeforeExtraction THEN 0 ELSE 1)
        /\ req[i].doc = "failed" => (req[i].pc = "done" /\ req[i].composes = 0)
        /\ req[i].page \in {"429", "other"} =>
              (req[i].pc \in AfterComposition /\ req[i].composes = 1)
        /\ i > nreq => (req[i].pc = "none" /\ req[i].composes = 0)

\* one fetch ended after a rate limit with the template, another after a
\* failed extraction: each made its calls once
C22_Witness ==
    \E i, j \in Requests :
        /\ req[i].pc = "done" /\ req[i].page = "429"
        /\ req[i].scrapes = 1 /\ req[i].composes = 1
        /\ req[i].outs = << "template" >>
        /\ req[j].pc = "done" /\ req[j].doc = "failed" /\ req[j].scrapes = 1

\* ------------------------------------------------------------------ the endpoint by itself
\* the endpoint a configured base leads to: NewClient, then completionsURL
normalize(base) ==
    completionsURL(NewClient([BaseURL |-> base, Model |-> <<"m">>, APIKey |-> EmptyStr]))

\* configured bases: two hosts, with and without a version segment, the
\* whole completions path or other segments, followed by zero to two slashes;
\* the empty base, bases of slashes only, and a base with a space after it
EndpointPaths ==
    { << >>, VersionPath, CompletionsPath, <<"/api">>, <<"/api">> \o VersionPath,
      <<"/api">> \o CompletionsPath, <<"/v1", "/chat">>, ChatPath,
      CompletionsPath \o VersionPath, CompletionsPath \o CompletionsPath,
      <<"/v1x">> }
TrailingSlashes == { << >>, <<"/">>, <<"/", "/">> }
EndpointBases ==
    { <<h>> \o path \o sl :
         h \in {"http://llm", "https://api.example"}, path \in EndpointPaths,
         sl \in TrailingSlashes }
    \cup { EmptyStr, <<"/">>, <<"/", "/">>, <<"http://llm", "/v1", " ">> }

InitEndpoint ==
    \E base \in EndpointBases :
        Started([requests |-> 0, updates |-> 0, actions |-> 0],
                [fn |-> "completionsURL", arg |-> base, done |-> FALSE,
                 ret |-> [url |-> EmptyStr, again |-> EmptyStr]])

\* the endpoint of a base, and the endpoint of that endpoint taken as a base
CompletionsURLCall ==
    /\ call.fn = "completionsURL"
    /\ ~call.done
    /\ call' = [call EXCEPT !.done = TRUE,
                            !.ret = [url |-> normalize(call.arg),
                                     again |-> normalize(normalize(call.arg))]]
    /\ UNCHANGED <<mu, session, disk, uiPc, uiLoc, queue, widgets, navResult, req,
                   counters, demoted>>

NextEndpoint == CompletionsURLCall

SpecEndpoint == InitEndpoint /\ [][NextEndpoint]_vars

\* C23: endpoint normalization is idempotent: for every configured base,
\* with or without trailing slashes, a version segment or the whole
\* completions path, building a client from the normalized URL and
\* normalizing again gives the same URL.
C23_NormalizationIsIdempotent ==
    (call.fn = "completionsURL" /\ call.done) => call.ret.again = call.ret.url

\* a base with a version segment and a trailing slash was normalized twice
C23_Witness ==
    /\ call.fn = "completionsURL" /\ call.done
    /\ call.arg = <<"https://api.example", "/v1", "/">>
    /\ call.ret.url = <<"https://api.example", "/v1", "/chat", "/completions">>
    /\ call.ret.again = call.ret.url

\* a base without its trailing slashes
Stripped(base) == TrimRight(base, "/")

\* what the three cases give for a base
ThreeCases(base) ==
    IF HasSuffix(Stripped(base), <<"/v1", "/chat", "/completions">>)
    THEN Stripped(base)
    ELSE IF HasSuffix(Stripped(base), <<"/v1">>)
    THEN Stripped(base) \o <<"/chat", "/completions">>
    ELSE Stripped(base) \o <<"/v1", "/chat", "/completions">>

\* C24: for every non-empty configured base the request URL is the base
\* itself if it ends with /v1/chat/completions, the base plus
\* /chat/completions if it ends with /v1, and the base plus
\* /v1/chat/completions otherwise, trailing slashes ignored, so that it ends
\* with /v1/chat/completions.
C24_RequestURLOfEveryNonEmptyBase ==
    (call.fn = "completionsURL" /\ call.done /\ call.arg # EmptyStr) =>
        /\ call.ret.url = ThreeCases(call.arg)
        /\ HasSuffix(call.ret.url, <<"/v1", "/chat", "/completions">>)

\* The same for the bases that are not empty once their trailing slashes
\* are removed: the request URL is the base itself if it ends with
\* /v1/chat/completions, the base plus /chat/completions if it ends with /v1,
\* and the base plus /v1/chat/completions otherwise, trailing slashes
\* ignored, so that it ends with /v1/chat/completions.  A base of slashes
\* only has no request URL.
C24_RequestURL ==
    (call.fn = "completionsURL" /\ call.done) =>
        /\ Stripped(call.arg) # EmptyStr =>
              /\ call.ret.url = ThreeCases(call.arg)
              /\ HasSuffix(call.ret.url, <<"/v1", "/chat", "/completions">>)
        /\ Stripped(call.arg) = EmptyStr => call.ret.url = EmptyStr

\* the request URL of a base that ends with its version segment and slashes
C24_Witness ==
    /\ call.fn = "completionsURL" /\ call.done
    /\ call.arg = <<"http://llm", "/api", "/v1", "/", "/">>
    /\ call.ret.url = <<"http://llm", "/api", "/v1", "/chat", "/completions">>

\* ------------------------------------------------------------------ sanitization by itself
\* A message content, by its parts: white space around it, and either a
\* fenced block (the marker, a language tag or none, a line break after the
\* tag, the inner content, the closing marker or none, text after it) or
\* content that does not start with a marker.
InnerContents == { EmptyStr, Markup, Markup \o <<" ", "<b>x</b>">> }
PlainContents ==
    { EmptyStr, Markup, Markup \o <<" ", "<b>x</b>">>, <<"html", " ">> \o Markup,
      Markup \o <<Fence>> \o Markup }
LanguageTags == { << >>, <<"html">>, <<"json">>, <<"html5">> }
Closings == { << >>, <<Fence>>, <<Fence, " ", "<b>x</b>">> }
Paddings == { << >>, <<" ">> }

MessageShapes ==
    { [fenced |-> TRUE, pad |-> p, tag |-> t, inner |-> in, gap |-> g,
       close |-> c, plain |-> EmptyStr] :
         p \in Paddings, t \in LanguageTags, in \in InnerContents,
         g \in Paddings, c \in Closings }
    \cup { [fenced |-> FALSE, pad |-> p, tag |-> << >>, inner |-> EmptyStr,
            gap |-> << >>, close |-> << >>, plain |-> pl] :
              p \in Paddings, pl \in PlainContents }

\* the content with these parts
Content(m) ==
    IF m.fenced
    THEN m.pad \o <<Fence>> \o m.tag \o <<" ">> \o m.inner \o m.gap \o m.close
            \o m.pad
    ELSE m.pad \o m.plain \o m.pad

InitSanitize ==
    \E m \in MessageShapes :
        Started([requests |-> 0, updates |-> 0, actions |-> 0],
                [fn |-> "sanitizeLLMOutput", arg |-> m, done |-> FALSE,
                 ret |-> EmptyStr])

\* one call of sanitizeLLMOutput
SanitizeCall ==
    /\ call.fn = "sanitizeLLMOutput"
    /\ ~call.done
    /\ call' = [call EXCEPT !.done = TRUE,
                            !.ret = sanitizeLLMOutput(Content(call.arg))]
    /\ UNCHANGED <<mu, session, disk, uiPc, uiLoc, queue, widgets, navResult, req,
                   counters, demoted>>

NextSanitize == SanitizeCall

SpecSanitize == InitSanitize /\ [][NextSanitize]_vars

\* the content is a block opened by the marker and a language tag and closed
\* by a marker
TaggedBlock(m) == m.fenced /\ m.tag # << >> /\ m.close # << >>

\* C25: for every content that, after trimming, is a fenced block opened by
\* the marker and a language tag, whatever the tag, and closed by a marker,
\* the result is exactly the inner content trimmed, without the tag; and for
\* every content that does not start with a marker after trimming, the
\* result is the content trimmed and otherwise unchanged.
C25_SanitizationRoundTrip ==
    (call.fn = "sanitizeLLMOutput" /\ call.done) =>
        /\ TaggedBlock(call.arg) => call.ret = TrimSpace(call.arg.inner)
        /\ ~call.arg.fenced => call.ret = TrimSpace(call.arg.plain)

\* The same for the one tag the function knows: a block tagged html gives
\* its inner content trimmed, an untagged block too, and content without a
\* leading marker is only trimmed.
SanitizationOfHtmlBlocks ==
    (call.fn = "sanitizeLLMOutput" /\ call.done) =>
        /\ (call.arg.fenced /\ call.arg.tag \in { << >>, <<"html">> }) =>
              call.ret = TrimSpace(call.arg.inner)
        /\ ~call.arg.fenced => call.ret = TrimSpace(call.arg.plain)

\* a block tagged json keeps its tag
TagIsKept ==
    /\ call.fn = "sanitizeLLMOutput" /\ call.done
    /\ call.arg.tag = <<"json">> /\ call.arg.inner = Markup
    /\ call.arg.close = <<Fence>>
    /\ call.ret = <<"json", " ">> \o Markup

\* ------------------------------------------------------------------ extraction by itself
\* A document is the sequence of its h1, h2, h3, p and a[href] elements in
\* document order, each with its text and, for an anchor, its href.
DefaultMaxItems == 10
MinParagraphLen == 40

\* len(text): the bytes of each piece of a text
PieceLen(piece) ==
    CASE piece = " " -> 1
      [] piece = "w39" -> 39
      [] piece = "w40" -> 40
      [] OTHER -> 5
RECURSIVE ByteLen(_)
ByteLen(text) == IF text = << >> THEN 0 ELSE PieceLen(Head(text)) + ByteLen(Tail(text))

\* the order of strings under <: pieces in byte order, none a prefix of another
Rank(piece) ==
    CASE piece = " " -> 0
      [] piece = "//a.example" -> 1
      [] piece = "//b.example" -> 2
      [] piece = "/y" -> 3
      [] piece = "/z" -> 4
      [] piece = "Alpha" -> 5
      [] piece = "Beta" -> 6
      [] piece = "Gamma" -> 7
      [] piece = "http:" -> 8
      [] piece = "https:" -> 9
      [] OTHER -> 10
RECURSIVE Less(_, _)
\* links[i].Text < links[j].Text
Less(s, t) ==
    IF t = << >> THEN FALSE
    ELSE IF s = << >> THEN TRUE
    ELSE IF Rank(Head(s)) # Rank(Head(t)) THEN Rank(Head(s)) < Rank(Head(t))
    ELSE Less(Tail(s), Tail(t))

\* scraper.New: a cap that is not positive becomes the default
maxItems(configured) == IF configured <= 0 THEN DefaultMaxItems ELSE configured

\* a variant of Truncate that keeps one item more
TruncateLate(s, limit) ==
    IF Len(s) > limit + 1 THEN SubSeq(s, 1, limit + 1) ELSE s

\* if len(s) > limit { s = s[:limit] }
Truncate(s, limit) == IF Len(s) > limit THEN SubSeq(s, 1, limit) ELSE s

\* doc.Find("h<level>").Each: the non-empty headings of one level
HeadingsOfLevel(doc, level, tag) ==
    LET found == SelectSeq(doc, LAMBDA e : e.tag = tag /\ TrimSpace(e.text) # << >>) IN
    [k \in 1..Len(found) |-> [Level |-> level, Text |-> TrimSpace(found[k].text)]]

\* a variant of collectHeadings that takes the headings in document order
collectHeadingsInDocumentOrder(doc, limit) ==
    LET found == SelectSeq(doc, LAMBDA e : e.tag \in {"h1", "h2", "h3"}
                                            /\ TrimSpace(e.text) # << >>)
        level(e) == IF e.tag = "h1" THEN 1 ELSE IF e.tag = "h2" THEN 2 ELSE 3 IN
    Truncate([k \in 1..Len(found) |->
                 [Level |-> level(found[k]), Text |-> TrimSpace(found[k].text)]],
             limit)

\* collectHeadings
collectHeadings(doc, limit) ==
    Truncate(HeadingsOfLevel(doc, 1, "h1") \o HeadingsOfLevel(doc, 2, "h2")
                \o HeadingsOfLevel(doc, 3, "h3"),
             limit)

\* collectParagraphs
collectParagraphs(doc, limit) ==
    LET found == SelectSeq(doc, LAMBDA e : e.tag = "p"
                       /\ ByteLen(TrimSpace(e.text)) >= MinParagraphLen) IN
    Truncate([k \in 1..Len(found) |-> TrimSpace(found[k].text)], limit)

\* base.Parse(trimmed) and parsed.String(), or the href itself when it does
\* not parse
ResolvedHref(base, href) ==
    LET trimmed == TrimSpace(href) IN
    IF ParseFails(trimmed) THEN trimmed
    ELSE IF IsAbs(trimmed) THEN String(trimmed)
    ELSE ResolveReference(base, trimmed)

\* the Link of an anchor
LinkOf(base, e) ==
    LET resolved == ResolvedHref(base, e.href) IN
    [Text |-> IF TrimSpace(e.text) = << >> THEN resolved ELSE TrimSpace(e.text),
     Href |-> resolved]

RECURSIVE EachAnchorKeepingLast(_, _, _)
\* a variant of EachAnchor in which a later anchor replaces the text of the
\* link with its href
EachAnchorKeepingLast(base, doc, links) ==
    IF doc = << >> THEN links
    ELSE LET e == Head(doc) IN
         IF e.tag # "a" \/ TrimSpace(e.href) = << >>
         THEN EachAnchorKeepingLast(base, Tail(doc), links)
         ELSE LET l == LinkOf(base, e) IN
              IF \E k \in 1..Len(links) : links[k].Href = l.Href
              THEN EachAnchorKeepingLast(base, Tail(doc),
                       [k \in 1..Len(links) |->
                           IF links[k].Href = l.Href THEN l ELSE links[k]])
              ELSE EachAnchorKeepingLast(base, Tail(doc), Append(links, l))

RECURSIVE EachAnchor(_, _, _)
\* doc.Find("a[href]").Each in collectLinks: the links appended so far are
\* the seen hrefs
EachAnchor(base, doc, links) ==
    IF doc = << >> THEN links
    ELSE LET e == Head(doc) IN
         IF e.tag # "a" \/ TrimSpace(e.href) = << >>
         THEN EachAnchor(base, Tail(doc), links)
         ELSE LET l == LinkOf(base, e) IN
              IF \E k \in 1..Len(links) : links[k].Href = l.Href
              THEN EachAnchor(base, Tail(doc), links)
              ELSE EachAnchor(base, Tail(doc), Append(links, l))

\* where sort.SliceStable puts one more link: after the links that are not
\* greater
InsertStable(sorted, l) ==
    LET k == Cardinality({ j \in 1..Len(sorted) : ~Less(l.Text, sorted[j].Text) }) IN
    SubSeq(sorted, 1, k) \o << l >> \o SubSeq(sorted, k + 1, Len(sorted))

RECURSIVE SliceStable(_)
\* sort.SliceStable(links, by Text)
SliceStable(links) ==
    IF links = << >> THEN << >>
    ELSE InsertStable(SliceStable(SubSeq(links, 1, Len(links) - 1)),
                      links[Len(links)])

\* a variant of collectLinks that sorts before it truncates
collectLinksSortedFirst(base, doc, limit) ==
    Truncate(SliceStable(EachAnchor(base, doc, << >>)), limit)

\* collectLinks
collectLinks(base, doc, limit) ==
    SliceStable(Truncate(EachAnchor(base, doc, << >>), limit))

\* the elements documents are made of
HeadingElements ==
    { [tag |-> "h1", text |-> <<"Alpha">>, href |-> << >>],
      [tag |-> "h1", text |-> <<" ">>, href |-> << >>],
      [tag |-> "h2", text |-> <<" ", "Beta">>, href |-> << >>],
      [tag |-> "h3", text |-> <<"Gamma">>, href |-> << >>] }
ParagraphElements ==
    { [tag |-> "p", text |-> <<"w40">>, href |-> << >>],
      [tag |-> "p", text |-> <<" ", "w39", " ">>, href |-> << >>] }
AnchorElements ==
    { [tag |-> "a", text |-> <<"Beta">>, href |-> <<"/y">>],
      [tag |-> "a", text |-> <<"Alpha">>, href |-> UrlY],
      [tag |-> "a", text |-> << >>, href |-> <<" ", "/z">>],
      [tag |-> "a", text |-> <<"Alpha", " ">>, href |-> <<"/z", "/y">>],
      [tag |-> "a", text |-> <<"Beta">>, href |-> <<"//b.example", "/y">>],
      [tag |-> "a", text |-> <<"Gamma">>, href |-> <<" ">>] }
Elements == HeadingElements \cup ParagraphElements \cup AnchorElements

\* more items of a kind than the default cap
LongHrefs ==
    << "/n01", "/n02", "/n03", "/n04", "/n05", "/n06", "/n07", "/n08", "/n09",
       "/n10", "/n11" >>
LongDocuments ==
    { [k \in 1..12 |-> [tag |-> IF k = 3 THEN "h2" ELSE "h1",
                        text |-> <<"Alpha">>, href |-> << >>]],
      [k \in 1..11 |-> [tag |-> "p", text |-> <<"w40">>, href |-> << >>]],
      [k \in 1..11 |-> [tag |-> "a", text |-> IF k = 11 THEN <<"Alpha">> ELSE <<"Beta">>,
                        href |-> << LongHrefs[k] >>]] }

MaxElements == 3
MaxAnchors == 4
Documents ==
    UNION { [1..n -> Elements] : n \in 0..MaxElements }
    \cup [1..MaxAnchors -> AnchorElements]
    \cup LongDocuments

\* Config.MaxItems
ConfiguredCaps == { -1, 0, 1, 2, 3 }

NoExtract == [headings |-> << >>, paragraphs |-> << >>, links |-> << >>]

InitExtract ==
    \E doc \in Documents, cap \in ConfiguredCaps :
        Started([requests |-> 0, updates |-> 0, actions |-> 0],
                [fn |-> "Scrape", arg |-> [doc |-> doc, cap |-> cap, base |-> UrlBase],
                 done |-> FALSE, ret |-> NoExtract])

\* the three collections of Scrape
ExtractCall ==
    /\ call.fn = "Scrape"
    /\ ~call.done
    /\ call' = [call EXCEPT
          !.done = TRUE,
          !.ret = [headings |->
                       collectHeadings(call.arg.doc, maxItems(call.arg.cap)),
                   paragraphs |->
                       collectParagraphs(call.arg.doc, maxItems(call.arg.cap)),
                   links |->
                       collectLinks(call.arg.base, call.arg.doc,
                                    maxItems(call.arg.cap))]]
    /\ UNCHANGED <<mu, session, disk, uiPc, uiLoc, queue, widgets, navResult, req,
                   counters, demoted>>

NextExtract == ExtractCall

SpecExtract == InitExtract /\ [][NextExtract]_vars

\* ------------------------------------------------------------------ what was extracted
Extracted == call.fn = "Scrape" /\ call.done
Doc == call.arg.doc
\* the cap in force: the configured one, or 10 when that is not positive
Cap == IF call.arg.cap >= 1 THEN call.arg.cap ELSE 10
Min(a, b) == IF a <= b THEN a ELSE b

\* the positions in the document of the items that qualify
QualifyingHeadings ==
    { k \in DOMAIN Doc : Doc[k].tag \in {"h1", "h2", "h3"} /\ TrimSpace(Doc[k].text) # << >> }
QualifyingParagraphs ==
    { k \in DOMAIN Doc : Doc[k].tag = "p" /\ ByteLen(TrimSpace(Doc[k].text)) >= 40 }
ValidAnchors ==
    { k \in DOMAIN Doc : Doc[k].tag = "a" /\ TrimSpace(Doc[k].href) # << >> }
HrefAt(k) == ResolvedHref(call.arg.base, Doc[k].href)
\* the anchors whose resolved href no earlier anchor has
FirstAnchors ==
    { k \in ValidAnchors : \A j \in ValidAnchors : j < k => HrefAt(j) # HrefAt(k) }

\* C26: each of the extracted headings, paragraphs and links has length
\* min(n, cap), n being the number of qualifying items before truncation
\* (for links, after deduplication): never more than the cap and exactly
\* the cap when n exceeds it; a configured cap that is not positive is the
\* default cap 10.
C26_LengthsAreCapped ==
    Extracted =>
        /\ Len(call.ret.headings) = Min(Cardinality(QualifyingHeadings), Cap)
        /\ Len(call.ret.paragraphs) = Min(Cardinality(QualifyingParagraphs), Cap)
        /\ Len(call.ret.links) = Min(Cardinality(FirstAnchors), Cap)

\* eleven different links under the default cap
C26_Witness ==
    /\ Extracted
    /\ call.arg.cap = 0
    /\ Cardinality(FirstAnchors) = 11
    /\ Len(call.ret.links) = 10

LevelAt(k) == IF Doc[k].tag = "h1" THEN 1 ELSE IF Doc[k].tag = "h2" THEN 2 ELSE 3
\* heading j comes before heading k: a higher level first, then document order
HeadingBefore(j, k) == LevelAt(j) < LevelAt(k) \/ (LevelAt(j) = LevelAt(k) /\ j < k)
HeadingPosition(k) == 1 + Cardinality({ j \in QualifyingHeadings : HeadingBefore(j, k) })

\* C27: the extracted headings are the first cap elements of: all non-empty
\* h1 in document order, then all non-empty h2, then all non-empty h3; so
\* levels never decrease along the output, and a heading of a lower level
\* appears only when every heading of the higher levels does.
C27_HeadingsByLevel ==
    Extracted =>
        /\ Len(call.ret.headings) = Min(Cardinality(QualifyingHeadings), Cap)
        /\ \A k \in QualifyingHeadings :
              HeadingPosition(k) <= Cap =>
                  call.ret.headings[HeadingPosition(k)] =
                      [Level |-> LevelAt(k), Text |-> TrimSpace(Doc[k].text)]
        /\ \A i, j \in DOMAIN call.ret.headings :
              i < j => call.ret.headings[i].Level <= call.ret.headings[j].Level
        /\ \A i \in DOMAIN call.ret.headings, k \in QualifyingHeadings :
              LevelAt(k) < call.ret.headings[i].Level =>
                  \E j \in DOMAIN call.ret.headings :
                      j < i /\ j = HeadingPosition(k)

\* an h2 before two h1, cap 2: only the two h1
C27_Witness ==
    /\ Extracted
    /\ call.arg.cap = 2
    /\ Doc = << [tag |-> "h2", text |-> <<" ", "Beta">>, href |-> << >>],
                [tag |-> "h1", text |-> <<"Alpha">>, href |-> << >>],
                [tag |-> "h1", text |-> <<"Alpha">>, href |-> << >>] >>
    /\ call.ret.headings = << [Level |-> 1, Text |-> <<"Alpha">>],
                              [Level |-> 1, Text |-> <<"Alpha">>] >>

\* the first anchor in document order with this resolved href
FirstAnchorOf(href) ==
    CHOOSE k \in ValidAnchors :
        HrefAt(k) = href /\ \A j \in ValidAnchors : HrefAt(j) = href => k <= j

\* C28: no two extracted links have the same resolved href, and the text of
\* each is the trimmed text of the first anchor in document order that
\* resolves to its href, or the href itself when that text is empty,
\* whatever later anchors with the same href say.
C28_LinksAreDeduplicated ==
    Extracted =>
        /\ \A i, j \in DOMAIN call.ret.links :
              i # j => call.ret.links[i].Href # call.ret.links[j].Href
        /\ \A i \in DOMAIN call.ret.links :
              /\ \E k \in ValidAnchors : HrefAt(k) = call.ret.links[i].Href
              /\ LET first == Doc[FirstAnchorOf(call.ret.links[i].Href)] IN
                 call.ret.links[i].Text =
                     (IF TrimSpace(first.text) = << >>
                      THEN call.ret.links[i].Href ELSE TrimSpace(first.text))

\* /y and https://a.example/y are one link, with the text of the first
C28_Witness ==
    /\ Extracted
    /\ Doc = << [tag |-> "a", text |-> <<"Beta">>, href |-> <<"/y">>],
                [tag |-> "a", text |-> <<"Alpha">>, href |-> UrlY] >>
    /\ call.ret.links = << [Text |-> <<"Beta">>, Href |-> UrlY] >>

\* the first cap deduplicated anchors in document order
KeptAnchors ==
    { k \in FirstAnchors : Cardinality({ j \in FirstAnchors : j < k }) < Cap }

\* C29: the extracted links are the first cap deduplicated links in document
\* order, sorted by display text, ties in document order: a link beyond the
\* cap never appears even if its text sorts first.
C29_LinksAreSortedAfterTruncation ==
    Extracted =>
        /\ { call.ret.links[i].Href : i \in DOMAIN call.ret.links }
              = { HrefAt(k) : k \in KeptAnchors }
        /\ Len(call.ret.links) = Cardinality(KeptAnchors)
        /\ \A i, j \in DOMAIN call.ret.links :
              i < j =>
                  /\ ~Less(call.ret.links[j].Text, call.ret.links[i].Text)
                  /\ call.ret.links[i].Text = call.ret.links[j].Text =>
                        FirstAnchorOf(call.ret.links[i].Href)
                            < FirstAnchorOf(call.ret.links[j].Href)

\* four different links under cap 3: the fourth, whose text sorts first, is
\* left out, and the three are in the order of their texts
C29_Witness ==
    /\ Extracted
    /\ call.arg.cap = 3
    /\ Doc = << [tag |-> "a", text |-> <<"Beta">>, href |-> <<"//b.example", "/y">>],
                [tag |-> "a", text |-> << >>, href |-> <<" ", "/z">>],
                [tag |-> "a", text |-> <<"Beta">>, href |-> <<"/y">>],
                [tag |-> "a", text |-> <<"Alpha", " ">>, href |-> <<"/z", "/y">>] >>
    /\ call.ret.links =
          << [Text |-> <<"Beta">>, Href |-> <<"https:", "//b.example", "/y">>],
             [Text |-> <<"Beta">>, Href |-> UrlY],
             [Text |-> <<"https:", "//a.example", "/z">>,
              Href |-> <<"https:", "//a.example", "/z">>] >>

\* ------------------------------------------------------------------ start-up overrides
\* strings.EqualFold over the pieces of the flag values
Fold(s) == [k \in 1..Len(s) |-> IF s[k] = "TRUE" THEN "true" ELSE s[k]]
EqualFold(s, t) == Fold(s) = Fold(t)

\* the first value, blank or not, that is not the empty string
firstNotEmptyString(values) ==
    IF \E k \in 1..Len(values) : values[k] # EmptyStr
    THEN values[CHOOSE k \in 1..Len(values) :
                    /\ values[k] # EmptyStr
                    /\ \A j \in 1..(k - 1) : values[j] = EmptyStr]
    ELSE EmptyStr

\* firstNonEmpty: the first value that is not blank, as it is, else ""
firstNonEmpty(values) ==
    IF \E k \in 1..Len(values) : TrimSpace(values[k]) # EmptyStr
    THEN values[CHOOSE k \in 1..Len(values) :
                    /\ TrimSpace(values[k]) # EmptyStr
                    /\ \A j \in 1..(k - 1) : TrimSpace(values[j]) = EmptyStr]
    ELSE EmptyStr

\* main: the composer configuration and the default-compose flag, from the
\* environment env and the loaded settings stored
Overrides(env, stored) ==
    LET envBase == firstNonEmpty(<<env.CHIMERA_LLM_BASE_URL,
                                   env.CHIMERA_LLM_ENDPOINT, stored.BaseURL>>)
        envModel == firstNonEmpty(<<env.CHIMERA_LLM_MODEL, stored.Model>>)
        envKey == firstNonEmpty(<<env.CHIMERA_LLM_API_KEY, stored.APIKey>>)
        override == TrimSpace(env.CHIMERA_USE_LLM)
        useLLM == IF override # EmptyStr
                  THEN EqualFold(override, <<"1">>)
                  ELSE stored.UseLLM IN
    [BaseURL |-> envBase, Model |-> envModel, APIKey |-> envKey,
     UseLLM |-> useLLM]

\* what the process environment may hold for the five variables
Environments ==
    [CHIMERA_LLM_BASE_URL : { EmptyStr, <<" ">>, <<"http://env">> },
     CHIMERA_LLM_ENDPOINT : { EmptyStr, <<"http://endpoint">> },
     CHIMERA_LLM_MODEL : { EmptyStr, <<" ">>, <<"env-model", " ">> },
     CHIMERA_LLM_API_KEY : { EmptyStr, <<"env-key">> },
     CHIMERA_USE_LLM : { EmptyStr, <<" ">>, <<"1">>, <<" ", "1", " ">>,
                         <<"TRUE">>, <<"0">> }]

\* what settings.Store.Load may give, the zero Data when nothing is stored
StoredSettings ==
    [BaseURL : { EmptyStr, <<"http://stored">> },
     Model : { EmptyStr, <<"stored-model">> },
     APIKey : { EmptyStr, <<"stored-key">> },
     UseLLM : BOOLEAN]

\* the environment is changed while the session runs
LaterEnvironments ==
    { [CHIMERA_LLM_BASE_URL |-> <<"http://later">>,
       CHIMERA_LLM_ENDPOINT |-> EmptyStr,
       CHIMERA_LLM_MODEL |-> <<"later-model">>,
       CHIMERA_LLM_API_KEY |-> <<"later-key">>,
       CHIMERA_USE_LLM |-> flag] : flag \in { <<"0">>, <<"1">> } }

InitMain ==
    \E env \in Environments, stored \in StoredSettings :
        Started([requests |-> 0, updates |-> 0, actions |-> 0],
                [fn |-> "main",
                 arg |-> [env |-> env, atStart |-> env, stored |-> stored],
                 done |-> FALSE,
                 ret |-> [BaseURL |-> EmptyStr, Model |-> EmptyStr,
                          APIKey |-> EmptyStr, UseLLM |-> FALSE]])

\* main reads the environment and the stored settings
MainCall ==
    /\ call.fn = "main"
    /\ ~call.done
    /\ call' = [call EXCEPT !.done = TRUE,
                            !.ret = Overrides(call.arg.env, call.arg.stored)]
    /\ UNCHANGED <<mu, session, disk, uiPc, uiLoc, queue, widgets, navResult, req,
                   counters, demoted>>

\* the environment changes under the running session: nothing reads it
Setenv ==
    /\ call.fn = "main"
    /\ call.done
    /\ call.arg.env = call.arg.atStart
    /\ \E env \in LaterEnvironments :
           call' = [call EXCEPT !.arg.env = env]
    /\ UNCHANGED <<mu, session, disk, uiPc, uiLoc, queue, widgets, navResult, req,
                   counters, demoted>>

NextMain == MainCall \/ Setenv

SpecMain == InitMain /\ [][NextMain]_vars

\* a value counts when it is not blank
Blank(v) == TrimSpace(v) = EmptyStr

\* the value the environment gives for the endpoint: the base URL variable,
\* else the endpoint variable
EnvBase(env) ==
    IF ~Blank(env.CHIMERA_LLM_BASE_URL) THEN env.CHIMERA_LLM_BASE_URL
    ELSE env.CHIMERA_LLM_ENDPOINT

\* the flag an environment value stands for
EnvFlag(v) == TrimSpace(v) = <<"1">>

ComposerFailed(i) == req[i].page \in {"429", "other"}

\* fetch i has handed the template page to the view
TemplateDispatched(i) ==
    \E k \in 1..Len(req[i].outs) : req[i].outs[k] = "template"

\* C31: whenever the composer call of a composed fetch fails, whatever the
\* failure, the fetch falls back to the template: once it has returned, it
\* has dispatched the template render of the extracted document.
C31_EveryComposerFailureFallsBack ==
    \A i \in Requests :
        (req[i].pc = "done" /\ ComposerFailed(i)) => TemplateDispatched(i)

\* The fallback that does exist: a fetch whose composer call ended with HTTP
\* 429 has dispatched the template and nothing else once it has returned,
\* and a fetch whose composer call failed otherwise has dispatched the
\* failure report and nothing else.
FallbackOnlyOnRateLimit ==
    \A i \in Requests :
        (req[i].pc = "done" /\ ComposerFailed(i)) =>
            req[i].outs = IF req[i].page = "429" THEN <<"template">> ELSE <<"error">>

\* ------------------------------------------------------------------ the URL entry
\* C32: Enter pressed in the URL entry with a non-empty URL takes the
\* composed mode exactly when the default-compose flag is set and the
\* composer is available, and the template mode otherwise, whatever the
\* sticky mode is; the handler's last step records that mode as the sticky
\* mode and starts the fetch with it, as for a click on one of the buttons.
C32_EnterFollowsTheDefault ==
    [][/\ (uiPc = "idle" /\ uiPc' = "setLastMode" /\ uiLoc'.origin = "enter") =>
             /\ uiLoc'.useLLM = (llmPreferred /\ llmClient.baseURL # EmptyStr)
             /\ uiLoc'.target # EmptyStr
       /\ (uiPc = "setLastMode" /\ uiPc' = "idle" /\ uiLoc.origin = "enter") =>
             /\ uiLoc.useLLM = (llmPreferred /\ llmClient.baseURL # EmptyStr)
             /\ llmLastSet'
             /\ llmLastMode' = uiLoc.useLLM
             /\ req'[nreq'].pc = "start"
             /\ req'[nreq'].useLLM = uiLoc.useLLM
             /\ req'[nreq'].target = uiLoc.target
             /\ ~demoted']_vars

\* Enter has taken the composed mode although the sticky mode is template
\* after a rate limit
C32_Witness ==
    /\ uiPc = "setLastMode"
    /\ uiLoc.origin = "enter"
    /\ uiLoc.useLLM
    /\ llmLastSet /\ ~llmLastMode
    /\ demoted

\* Enter has taken the template mode although composed is the default:
\* the composer is unavailable
C32_UnavailableWitness ==
    /\ uiPc = "setLastMode"
    /\ uiLoc.origin = "enter"
    /\ ~uiLoc.useLLM
    /\ llmPreferred

ConfiguredBases ==
    EndpointBases \cup { <<" ">>, <<" ", "/", " ">>, <<" ", "http://llm", "/", " ">>,
                         <<"/", " ">> }

\* where a client is built: by main at start-up, from the value firstNonEmpty
\* chose, or by applySettings, from the submitted value
Builders == { "main", "applySettings" }

\* the llm.Config handed to NewClient
BuilderConfig(builder, base) ==
    IF builder = "main"
    THEN [BaseURL |-> firstNonEmpty(<<base>>), Model |-> <<"m">>, APIKey |-> EmptyStr]
    ELSE TrimSettings(TrimSettings([BaseURL |-> base, Model |-> <<"m">>,
                                    APIKey |-> EmptyStr]))

InitNewClient ==
    \E base \in ConfiguredBases, builder \in Builders :
        Started([requests |-> 0, updates |-> 0, actions |-> 0],
                [fn |-> "NewClient", arg |-> [base |-> base, builder |-> builder],
                 done |-> FALSE,
                 ret |-> [client |-> NilClient, available |-> FALSE]])

\* NewClient(cfg), then Available() of the client it returned
NewClientCall ==
    /\ call.fn = "NewClient"
    /\ ~call.done
    /\ LET client == NewClient(BuilderConfig(call.arg.builder, call.arg.base)) IN
       call' = [call EXCEPT !.done = TRUE,
                            !.ret = [client |-> client,
                                     available |-> Available(client)]]
    /\ UNCHANGED <<mu, session, disk, uiPc, uiLoc, queue, widgets, navResult, req,
                   counters, demoted>>

NextNewClient == NewClientCall

SpecNewClient == InitNewClient /\ [][NextNewClient]_vars

\* C34: the composer client is disabled exactly when the configured base URL
\* is empty: for every client NewClient builds, at start-up or in a settings
\* update, Available() is true if and only if the configured base URL with
\* surrounding spaces removed is not the empty string, bases made of slashes
\* only included.
C34_AvailableIffBaseNotEmpty ==
    (call.fn = "NewClient" /\ call.done) =>
        (call.ret.available <=> TrimSpace(call.arg.base) # EmptyStr)

\* What holds instead: Available() is true if and only if something is left
\* of the base URL handed to NewClient once its trailing slashes are removed.
AvailableIffBaseWithoutSlashesNotEmpty ==
    (call.fn = "NewClient" /\ call.done) =>
        (call.ret.available <=>
            TrimRight(BuilderConfig(call.arg.builder, call.arg.base).BaseURL, "/")
                # EmptyStr)

\* a settings update with the base "/" has built a client that is not available
SlashOnlyBaseIsDisabled ==
    /\ call.fn = "NewClient" /\ call.done
    /\ call.arg = [base |-> <<"/">>, builder |-> "applySettings"]
    /\ ~call.ret.available

\* ------------------------------------------------------------------ demotions of overtaken fetches
\* no in-page navigation has been handled so far: every fetch of the run
\* was started by an explicit action (a button or Enter)
OnlyExplicitActions ==
    /\ navResult = None
    /\ uiPc # "navigationMode"
    /\ uiLoc.origin # "nav"

\* fetch i writes the template mode after its composer call was rate-limited
Demotes(i) == req[i].pc = "setLastMode_cs" /\ req'[i].pc = "done"

\* C35: a rate-limit demotion raised by a fetch that was started before the
\* most recent explicit action does not overwrite the sticky mode that action
\* recorded: when every fetch was started by an explicit action and fetch i
\* is not the latest of them, the step in which fetch i demotes leaves the
\* sticky mode as the later action recorded it.
C35_StaleDemotionKeepsStickyMode ==
    [][\A i \in Requests :
          (Demotes(i) /\ OnlyExplicitActions /\ nreq > i) =>
              StickyMode' = StickyMode]_vars

\* two compose clicks, no navigation: the first fetch was rate-limited, the
\* second was composed, both have returned, and the sticky mode is template
StaleDemotionWins ==
    /\ OnlyExplicitActions
    /\ uiPc = "idle"
    /\ nreq = 2
    /\ req[1].pc = "done" /\ req[1].page = "429"
    /\ req[2].pc = "done" /\ req[2].page = "ok"
    /\ llmLastSet /\ ~llmLastMode

\* What holds instead: every demotion sets the sticky mode to template,
\* whichever fetch raises it and whatever was recorded since it started.
EveryDemotionSetsTemplate ==
    [][\A i \in Requests : Demotes(i) => (llmLastSet' /\ ~llmLastMode')]_vars

\* ------------------------------------------------------------------ the visible page and the last source
\* no fetch is running, no handler is running, and the idle queue is empty
Quiescent ==
    /\ \A i \in Requests : req[i].pc \in {"none", "done"}
    /\ uiPc = "idle"
    /\ queue = << >>

\* C36: whenever no fetch is in flight and the idle queue is drained,
\* lastSource is the source URL of the document whose page, composed or
\* template, the web view shows, so that a relative link of the visible page
\* is resolved against that page; also after composer failures and for every
\* interleaving of concurrent fetches.
C36_LastSourceIsTheVisiblePage ==
    (Quiescent /\ view.kind # "blank") => lastSource = view.src

\* a composer failure: the view still shows the page of /base, with the
\* failure bubble over it, and lastSource is /y, the document whose
\* composition failed
VisiblePageAfterComposerFailure ==
    /\ Quiescent
    /\ view.src = UrlBase
    /\ bubble = "LLM fallback"
    /\ lastSource = UrlY
    /\ \E i \in Requests : req[i].page = "other" /\ req[i].outs = <<"error">>

\* two overlapping fetches, neither failed: the one that recorded its source
\* first rendered last
VisiblePageAfterOvertaking ==
    /\ Quiescent
    /\ \A i \in Requests : req[i].outs \in { <<"template">>, <<"composed">> }
    /\ view.kind # "blank"
    /\ lastSource # view.src

\* What holds instead: at rest, lastSource is the source of the document
\* some fetch extracted, the visible one or not.
LastSourceIsSomeExtractedDocument ==
    (Quiescent /\ lastSource # EmptyStr) =>
        \E i \in Requests : req[i].doc = "ok" /\ lastSource \in {UrlBase, UrlY}

\* ------------------------------------------------------------------ one content callback per fetch
\* a step of the handleScrape goroutine i, whatever Scrape, GeneratePage and
\* renderSimple return
FetchStep(i) ==
    \/ Start(i)
    \/ ScrapeFails(i)
    \/ ScrapeSucceeds(i)
    \/ SetLastSourceUnlock(i)
    \/ CurrentLLMLock(i)
    \/ CurrentLLMReturn(i)
    \/ CurrentLLMReturnRenderFails(i)
    \/ GenerateSucceeds(i)
    \/ \E err \in ComposeErrors : GenerateFails(i, err)
    \/ SetLastModeLock(i)
    \/ SetLastModeUnlock(i)
    \/ SetLastModeUnlockRenderFails(i)

\* applySettings between its Lock and its Unlock
UpdateStep == ApplyPreferred \/ \E saved \in BOOLEAN : ApplySettings(saved)

\* user actions in a run that is checked for termination
MaxFetchActions == 2

InitFetch ==
    Boot([requests |-> MaxRequests, updates |-> MaxUpdates,
          actions |-> MaxFetchActions])

NextFetch ==
    \/ Next
    \/ \E i \in Requests : CurrentLLMReturnRenderFails(i)
    \/ \E i \in Requests : SetLastModeUnlockRenderFails(i)

\* the goroutines are scheduled, Scrape and GeneratePage return (both HTTP
\* clients have a timeout), and applySettings runs to its Unlock
SpecFetch ==
    /\ InitFetch
    /\ [][NextFetch]_vars
    /\ \A i \in Requests : WF_vars(FetchStep(i))
    /\ WF_vars(UpdateStep)

\* the content callbacks among q: the HTML renders and the failure reports
ContentCallbacks(q) ==
    { k \in 1..Len(q) : q[k].kind \in {"renderHTML", "renderError"} }

\* a step queues a content callback only when a fetch returns in it, and
\* then exactly one, before the spinner is stopped; a fetch that has
\* returned stays returned
OneContentCallbackPerReturn ==
    /\ Cardinality(ContentCallbacks(Queued)) =
           Cardinality({ i \in Requests : Finishes(i) })
    /\ \A i \in Requests :
          /\ Finishes(i) =>
                /\ Len(Queued) = 2
                /\ ContentCallbacks(Queued) = {1}
                /\ Queued[1].kind = "renderHTML" => Queued[1].html.req = i
                /\ Len(req'[i].outs) = 1
                /\ (req'[i].outs[1] = "error") = (Queued[1].kind = "renderError")
          /\ req[i].pc = "done" => req'[i].pc = "done"

\* C37: every started fetch terminates and queues exactly one content
\* callback, an HTML render (composed or template) or a failure report,
\* never both and never none, whatever Scrape, GeneratePage and renderSimple
\* return.
C37_ExactlyOneContentCallback ==
    /\ [][OneContentCallbackPerReturn]_vars
    /\ \A i \in Requests : (req[i].pc = "start") ~> (req[i].pc = "done")

\* a fetch was rate-limited, renderSimple then failed, and the fetch has
\* returned with the failure report alone
C37_Witness ==
    \E i \in Requests :
        /\ req[i].pc = "done"
        /\ req[i].page = "429"
        /\ req[i].outs = <<"error">>
        /\ bubble = "Render error"

\* ------------------------------------------------------------------ the busy spinner
\* the goroutine of fetch i has queued its startSpinner and has not returned
InFlight(i) == req[i].pc \notin {"none", "start", "done"}

\* C38: whenever the idle queue is drained, the busy spinner is shown if and
\* only if at least one fetch is still in flight: it stays shown while any
\* of several concurrent fetches is running and is hidden once all of them
\* have returned.
C38_SpinnerShownIffFetching ==
    queue = << >> => (spinner <=> \E i \in Requests : InFlight(i))

\* one of two overlapping fetches has returned and its stopSpinner has run:
\* the spinner is hidden while the other fetch is inside GeneratePage
SpinnerHiddenWhileFetching ==
    /\ queue = << >>
    /\ ~spinner
    /\ req[1].pc = "done"
    /\ req[2].pc = "generate"

\* What holds instead: with the idle queue drained, the spinner is hidden
\* once every fetch has returned, and it is shown while the only fetch
\* started so far is in flight.
SpinnerOfTheLastFetch ==
    queue = << >> =>
        /\ (\A i \in Requests : ~InFlight(i)) => ~spinner
        /\ (nreq = 1 /\ InFlight(1)) => spinner

\* ------------------------------------------------------------------ the compose button after an update
\* a settings dialog was saved and its click handler has returned
DialogSaved ==
    /\ nupd > 0
    /\ ~MidUpdate
    /\ uiPc # "updateLLMButton"

\* C39: after the settings dialog is saved, whether or not the settings
\* could be persisted, the compose button is sensitive if and only if the
\* composer client that is now in use is available.
C39_ComposeButtonFollowsTheClient ==
    DialogSaved => (llmBtn <=> llmAvailable(llmClient))

\* Save failed after a dialog that emptied the base URL: the client in use is
\* disabled and the compose button is still sensitive
StaleComposeButton ==
    /\ DialogSaved
    /\ uiPc = "idle"
    /\ infoLabel = "Settings error"
    /\ llmBtn
    /\ ~llmAvailable(llmClient)

\* What holds instead: the button follows the client after every update
\* whose settings were persisted, or that had no store to persist them to.
ComposeButtonFollowsAPersistedUpdate ==
    (/\ DialogSaved
     /\ \/ settingsStore = None
        \/ persisted = SettingsData(llmSettings, llmPreferred)) =>
        (llmBtn <=> llmAvailable(llmClient))

\* ------------------------------------------------------------------ what an update leaves alone
\* a step of the settings update: applySettings from its Lock to its return,
\* and the rest of openSettingsDialog
UpdateSteps ==
    \/ uiPc = "idle" /\ uiPc' = "apply_preferred"
    \/ uiPc = "apply_preferred" /\ uiPc' = "apply_settings"
    \/ uiPc = "apply_settings" /\ uiPc' # uiPc
    \/ uiPc = "updateLLMButton" /\ uiPc' = "idle"

\* C40: a settings update changes nothing of the session but the composer
\* configuration, the composer client and the default-compose flag: the
\* sticky mode (whether one is recorded, and which) and lastSource are the
\* same after each of its steps as before, and nothing changes them while
\* applySettings holds the lock; and no step of the program takes a recorded
\* sticky mode back to unrecorded.
C40_UpdateKeepsStickyModeAndLastSource ==
    [][/\ (UpdateSteps \/ MidUpdate) =>
             UNCHANGED <<llmLastSet, llmLastMode, lastSource>>
       /\ llmLastSet => llmLastSet']_vars

\* applySettings is about to return: the client and the default-compose flag
\* are the submitted ones, the sticky mode is still composed and lastSource
\* is still the page fetched before the update
C40_Witness ==
    /\ uiPc = "apply_settings"
    /\ llmClient.baseURL = <<"http://other">>
    /\ ~llmPreferred
    /\ llmLastSet /\ llmLastMode
    /\ lastSource = UrlBase

====
